---- MODULE Spec2Model ----
(***************************************************************************)
(* WiseFlix (src/WiseFlix.py): a Telegram bot that browses TMDb results.   *)
(* The model covers the recommendation selector (get_quality_content),     *)
(* the per-user browse session (get_random_content, handle_trending,       *)
(* display_random_content) and the watchlist/favorites tables of Database. *)
(*                                                                         *)
(* Python dicts are functions with string domains; a missing key is read   *)
(* with Get(d, k, default) as dict.get does.  Ratings are in tenths        *)
(* (6.0 -> 60).  Time is in whole minutes.  None for a genre id is 0:      *)
(* every test the code makes on genre_id (truthiness, membership in        *)
(* RARE_GENRES and GENRE_ADJUSTMENTS) has the same outcome for None and 0. *)
(***************************************************************************)
EXTENDS Integers, Sequences, FiniteSets, Bags, TLC

VARIABLES session, watchlists, favorites, notifications, user_activity, job, tasks, now, http,
          outcome, view

vars == <<session, watchlists, favorites, notifications, user_activity, job, tasks, now, http,
         outcome, view>>

(***************************************************************************)
(* Bounds of the model.                                                    *)
(***************************************************************************)
\* longest page of results the catalog returns to a selector-only call
MaxResults == 9
\* longest page the catalog returns to a browse request, apart from the
\* over-long page of SessionLimit + 1 items that exercises the truncation
MaxBrowseLen == 3
\* a page of this length gives the session of the wraparound example
ExampleLen == 5
\* the clock stops advancing here
MaxClock == 11

(***************************************************************************)
(* Program constants.                                                      *)
(***************************************************************************)
NoGenre == 0
SessionLimit == 20
SessionTTL == 10
RareMinResults == 3
DefaultMinResults == 8
HTTP_OK == 200
HTTP_ERROR == 500

Users == {"u1", "u2"}
ContentTypes == {"movie", "tv"}

RARE_GENRES == {99, 10770, 10763, 10764, 10767}

GENRE_ADJUSTMENTS ==
    (99    :> (("min_rating" :> 50) @@ ("min_votes" :> 50)))  @@
    (16    :> (("min_rating" :> 60) @@ ("min_votes" :> 100))) @@
    (10770 :> (("min_rating" :> 45) @@ ("min_votes" :> 50)))  @@
    (10763 :> (("min_rating" :> 40) @@ ("min_votes" :> 30)))  @@
    (10764 :> (("min_rating" :> 40) @@ ("min_votes" :> 30)))  @@
    (10767 :> (("min_rating" :> 40) @@ ("min_votes" :> 30)))

sort_options == {"vote_average.desc", "popularity.desc", "primary_release_date.desc"}

(***************************************************************************)
(* Dict helpers.                                                           *)
(***************************************************************************)
\* d.get(k, def)
Get(d, k, def) == IF k \in DOMAIN d THEN d[k] ELSE def

\* {**f, **g} and f.update(g): the keys of g win
Update(f, g) == [k \in (DOMAIN f) \cup (DOMAIN g) |-> IF k \in DOMAIN g THEN g[k] ELSE f[k]]

Max(a, b) == IF a >= b THEN a ELSE b
Min(a, b) == IF a <= b THEN a ELSE b

(***************************************************************************)
(* The catalog provider.  An item is [id, adult]; a response is a status   *)
(* code and a page of items.  Page(k, a) is the page of items 1..k whose   *)
(* adult-flagged ids are those of a.                                       *)
(***************************************************************************)
Page(k, a) == [i \in 1 .. k |-> [id |-> i, adult |-> i \in a]]

Responses(lens) ==
    {[status_code |-> HTTP_OK, results |-> Page(k, a)] :
        k \in lens, a \in {{}, {2}, 1 .. MaxResults}}
        \cup {[status_code |-> HTTP_ERROR, results |-> <<>>]}

\* the comprehension keeps every item
FilterAdult_m(results) == results

\* [item for item in results if not item.get('adult', False)]
FilterAdult(results) == SelectSeq(results, LAMBDA item : ~item.adult)

(***************************************************************************)
(* get_quality_content                                                     *)
(***************************************************************************)
BaseFilters(content_type) ==
    IF content_type = "movie"
    THEN ("vote_count.gte" :> 100) @@ ("vote_average.gte" :> 60) @@
         ("with_original_language" :> "en") @@ ("primary_release_date.gte" :> "2000-01-01")
    ELSE ("vote_count.gte" :> 50) @@ ("vote_average.gte" :> 60) @@
         ("with_original_language" :> "en") @@ ("first_air_date.gte" :> "2010-01-01")

\* filters after the genre-specific adjustments and the genre filter
Filters(content_type, genre_id) ==
    LET base == BaseFilters(content_type)
        adjusted == IF genre_id # NoGenre /\ genre_id \in DOMAIN GENRE_ADJUSTMENTS
                    THEN Update(base, GENRE_ADJUSTMENTS[genre_id])
                    ELSE base
    IN  IF genre_id # NoGenre
        THEN Update(adjusted, "with_genres" :> genre_id)
        ELSE adjusted

MinResults_m(genre_id) == DefaultMinResults

\* min_results = 3 if genre_id in RARE_GENRES else 8
MinResults(genre_id) == IF genre_id \in RARE_GENRES THEN RareMinResults ELSE DefaultMinResults

\* the relaxed thresholds are the two floors themselves
FallbackParams_m(filters) ==
    Update(filters, ("vote_count.gte" :> 30) @@ ("vote_average.gte" :> 50))

\* lines 492-496
FallbackParams(filters) ==
    Update(filters,
           ("vote_count.gte" :> Max(30, Get(filters, "vote_count.gte", 0) - 20)) @@
           ("vote_average.gte" :> Max(50, Get(filters, "vote_average.gte", 0) - 5)))

\* the status code is not looked at
StatusOk_m(response) == TRUE

\* every status from 200 up counts as success
StatusOk_ge(response) == response.status_code >= HTTP_OK

\* response.status_code == 200
StatusOk(response) == response.status_code = HTTP_OK

\* The call with its random draws (chosen_sort, page) and the provider's
\* answers to the strict and to the fallback request.  The result is the
\* returned list and the requests issued, in order.
get_quality_content(content_type, genre_id, chosen_sort, page, strict, fallback) ==
    LET base_params == ("sort_by" :> chosen_sort) @@ ("page" :> page) @@ ("region" :> "US")
        filters == Filters(content_type, genre_id)
        url == IF genre_id # NoGenre THEN <<"discover", content_type>>
               ELSE <<content_type, "top_rated">>
        req1 == [call |-> "strict", url |-> url, params |-> Update(base_params, filters)]
        req2 == [call |-> "fallback", url |-> url,
                 params |-> Update(base_params, FallbackParams(filters))]
    IN  IF StatusOk(strict)
        THEN IF Len(strict.results) < MinResults(genre_id)
             THEN IF StatusOk(fallback)
                  THEN [results |-> FilterAdult(fallback.results), http |-> <<req1, req2>>]
                  ELSE [results |-> <<>>, http |-> <<req1, req2>>]
             ELSE [results |-> FilterAdult(strict.results), http |-> <<req1>>]
        ELSE [results |-> <<>>, http |-> <<req1>>]

(***************************************************************************)
(* Conversions.  str(int) and datetime.isoformat are injective and         *)
(* fromisoformat inverts isoformat; they are kept as tagged values.        *)
(***************************************************************************)
Str(n) == <<"str", n>>

IsoFormat(t) == <<"iso", t>>

FromIsoFormat(x) == x[2]

(***************************************************************************)
(* random.shuffle: any permutation may come out.  The model draws it from  *)
(* six rearrangements, which are all the permutations of a list of up to   *)
(* three items.                                                            *)
(***************************************************************************)
Permutation(kind, n) ==
    [i \in 1 .. n |->
        CASE kind = "identity"  -> i
          [] kind = "reverse"   -> n + 1 - i
          [] kind = "rotate"    -> (i % n) + 1
          [] kind = "rotate2"   -> ((i + 1) % n) + 1
          [] kind = "swap_head" -> IF n >= 2 /\ i <= 2 THEN 3 - i ELSE i
          [] kind = "swap_tail" -> IF n >= 2 /\ i >= n - 1 THEN 2 * n - 1 - i ELSE i]

\* sampling with replacement: the same item at every position
Shuffle_m(results, kind) ==
    [i \in 1 .. Len(results) |-> results[Permutation(kind, Len(results))[1]]]

Shuffle(results, kind) == [i \in 1 .. Len(results) |-> results[Permutation(kind, Len(results))[i]]]

\* the slice is forgotten
Take_m(results, n) == results

\* results[:n]
Take(results, n) == SubSeq(results, 1, Min(n, Len(results)))

(***************************************************************************)
(* Database: the watchlists and favorites tables.  A table is the bag of   *)
(* its rows; PRIMARY KEY (user_id, content_type, item_id) makes an INSERT  *)
(* of a present key raise sqlite3.IntegrityError.                          *)
(***************************************************************************)
Row(user_id, content_type, item_id, title, poster_path, date_added) ==
    [user_id |-> user_id, content_type |-> content_type, item_id |-> item_id,
     title |-> title, poster_path |-> poster_path, date_added |-> date_added]

RowsWithKey(table, user_id, content_type, item_id) ==
    {row \in BagToSet(table) :
        <<row.user_id, row.content_type, row.item_id>> = <<user_id, content_type, item_id>>}

\* INSERT OR REPLACE in place of INSERT: the row is rewritten, True
add_to_list_m(table, user_id, content_type, item_id, title, poster_path, date_added) ==
    LET kept == BagToSet(table) \ RowsWithKey(table, user_id, content_type, item_id)
    IN  [table |-> [row \in kept |-> table[row]]
                       (+) SetToBag({Row(user_id, content_type, item_id, title, poster_path,
                                         date_added)}),
         ret |-> TRUE]

\* no primary key: every INSERT succeeds
add_to_list_dup(table, user_id, content_type, item_id, title, poster_path, date_added) ==
    [table |-> table (+) SetToBag({Row(user_id, content_type, item_id, title, poster_path,
                                       date_added)}),
     ret |-> TRUE]

\* add_to_watchlist, add_to_favorites: False on the caught IntegrityError
add_to_list(table, user_id, content_type, item_id, title, poster_path, date_added) ==
    IF RowsWithKey(table, user_id, content_type, item_id) # {}
    THEN [table |-> table, ret |-> FALSE]
    ELSE [table |-> table (+) SetToBag({Row(user_id, content_type, item_id, title,
                                            poster_path, date_added)}),
          ret |-> TRUE]

\* DELETE that forgets the content_type column
remove_from_list_m(table, user_id, content_type, item_id) ==
    LET hit == {row \in BagToSet(table) : row.user_id = user_id /\ row.item_id = item_id}
        kept == BagToSet(table) \ hit
    IN  [table |-> [row \in kept |-> table[row]],
         ret |-> BagCardinality([row \in hit |-> table[row]]) > 0]

\* remove_from_watchlist, remove_from_favorites: DELETE ... WHERE user_id = ?
\* AND content_type = ? AND item_id = ?; returns rowcount > 0
remove_from_list(table, user_id, content_type, item_id) ==
    LET hit == RowsWithKey(table, user_id, content_type, item_id)
        kept == BagToSet(table) \ hit
    IN  [table |-> [row \in kept |-> table[row]],
         ret |-> BagCardinality([row \in hit |-> table[row]]) > 0]

\* get_watchlist, get_favorites without LIMIT: the user's rows
get_list(table, user_id) == {row \in BagToSet(table) : row.user_id = user_id}

(***************************************************************************)
(* display_random_content and get_random_content.  A handler's result is   *)
(* the user's session dict, the view it rendered and the requests it       *)
(* issued.  env holds the random draws and the provider's answers.         *)
(***************************************************************************)
\* a negative index goes to the first item instead of the last
NormIndex_m(index, n) == IF index < 0 THEN 0 ELSE index % n

\* lines 600-604
NormIndex(index, n) == IF index < 0 THEN n - 1 ELSE index % n

\* the stored string id is compared with the item's integer id: never equal
InList_m(table, user_id, content_type, item_id) == FALSE

\* lines 626-636
InList(table, user_id, content_type, item_id) ==
    \E row \in get_list(table, user_id) : row.content_type = content_type /\ row.item_id = item_id

ItemView(user_id, sess, index, wl, fav) ==
    LET item == sess["items"][index + 1]
        content_type == sess["content_type"]
        item_id == Str(item.id)
    IN  [kind |-> "item", index |-> index, total |-> Len(sess["items"]),
         prev |-> index - 1, next |-> index + 1,
         content_type |-> content_type, item_id |-> item_id,
         in_watchlist |-> InList(wl, user_id, content_type, item_id),
         in_favorites |-> InList(fav, user_id, content_type, item_id)]

\* the genre names the bot knows, per content type
GENRES ==
    [movie |-> (28 :> "Action" @@ 12 :> "Adventure" @@ 16 :> "Animation"
                @@ 35 :> "Comedy" @@ 80 :> "Crime" @@ 99 :> "Documentary"
                @@ 18 :> "Drama" @@ 10751 :> "Family" @@ 14 :> "Fantasy"
                @@ 36 :> "History" @@ 27 :> "Horror" @@ 10402 :> "Music"
                @@ 9648 :> "Mystery" @@ 10749 :> "Romance"
                @@ 878 :> "Science Fiction" @@ 10770 :> "TV Movie"
                @@ 53 :> "Thriller" @@ 10752 :> "War" @@ 37 :> "Western"),
     tv |-> (10759 :> "Action & Adventure" @@ 16 :> "Animation"
             @@ 35 :> "Comedy" @@ 80 :> "Crime" @@ 99 :> "Documentary"
             @@ 18 :> "Drama" @@ 10751 :> "Family" @@ 10762 :> "Kids"
             @@ 9648 :> "Mystery" @@ 10763 :> "News" @@ 10764 :> "Reality"
             @@ 10765 :> "Sci-Fi & Fantasy" @@ 10766 :> "Soap"
             @@ 10767 :> "Talk" @@ 10768 :> "War & Politics"
             @@ 37 :> "Western")]

\* GENRES.get(content_type, {}).get(genre_id, "this genre")
GenreName(content_type, genre_id) ==
    Get(Get(GENRES, content_type, <<>>), genre_id, "this genre")

\* the message names no genre at all
NoResultsMessage_m(content_type, genre_id) ==
    "No " \o content_type \o "s found"

NoResultsMessage(content_type, genre_id) ==
    IF genre_id # NoGenre
    THEN "No " \o content_type \o "s found in "
             \o GenreName(content_type, genre_id) \o ". Try another genre!"
    ELSE "No " \o content_type \o "s found"

NoResultsView(content_type, genre_id) ==
    [kind |-> "no_results", content_type |-> content_type, genre_id |-> genre_id,
     message |-> NoResultsMessage(content_type, genre_id),
     buttons |-> <<"browse_genres", "main_menu">>]

\* stale already at exactly ten minutes
IsStale_ge(sess) ==
    /\ "last_refresh" \in DOMAIN sess
    /\ now - FromIsoFormat(sess["last_refresh"]) >= SessionTTL

\* stale only after more than eleven minutes
IsStale_late(sess) ==
    /\ "last_refresh" \in DOMAIN sess
    /\ now - FromIsoFormat(sess["last_refresh"]) > SessionTTL + 1

\* line 594
IsStale(sess) ==
    /\ "last_refresh" \in DOMAIN sess
    /\ now - FromIsoFormat(sess["last_refresh"]) > SessionTTL

NeedsRefresh(sess) == Get(sess, "items", <<>>) = <<>> \/ IsStale(sess)

\* the index is stored as the button carried it, before it is wrapped
show_item_m(user_id, sess, wl, fav, index) ==
    LET idx == NormIndex(index, Len(sess["items"]))
        updated == Update(sess, "current_index" :> index)
    IN  [session |-> updated,
         view |-> ItemView(user_id, Update(sess, "current_index" :> idx), idx, wl, fav),
         http |-> <<>>, fetched |-> <<>>]

\* display_random_content on a fresh, non-empty session: wrap the index,
\* store it, render the item
show_item(user_id, sess, wl, fav, index) ==
    LET idx == NormIndex(index, Len(sess["items"]))
        updated == Update(sess, "current_index" :> idx)
    IN  [session |-> updated, view |-> ItemView(user_id, updated, idx, wl, fav),
         http |-> <<>>, fetched |-> <<>>]

RECURSIVE display_random_content(_, _, _, _, _, _)
RECURSIVE get_random_content(_, _, _, _, _, _, _)

get_random_content(user_id, sess, wl, fav, content_type, genre_id, env) ==
    LET r == get_quality_content(content_type, genre_id, env.chosen_sort, env.page,
                                 env.strict, env.fallback)
    IN  IF r.results # <<>>
        THEN LET fresh == [items |-> Take(Shuffle(r.results, env.shuffle), SessionLimit),
                           content_type |-> content_type,
                           genre_id |-> genre_id,
                           source |-> IF genre_id # NoGenre THEN "genre" ELSE "random",
                           current_index |-> 0,
                           last_refresh |-> IsoFormat(now)]
                 d == display_random_content(user_id, fresh, wl, fav, 0, env)
             IN  [session |-> d.session, view |-> d.view, http |-> r.http \o d.http,
                  fetched |-> r.results]
        ELSE [session |-> sess, view |-> NoResultsView(content_type, genre_id),
              http |-> r.http, fetched |-> r.results]

display_random_content(user_id, sess, wl, fav, index, env) ==
    IF NeedsRefresh(sess)
    THEN get_random_content(user_id, sess, wl, fav, Get(sess, "content_type", "movie"),
                            Get(sess, "genre_id", NoGenre), env)
    ELSE show_item(user_id, sess, wl, fav, index)

\* handle_trending
TrendingRequest(content_type) ==
    [call |-> "trending", url |-> <<"trending", content_type, "week">>,
     params |-> ("vote_average.gte" :> 70) @@ ("vote_count.gte" :> 1000)]

handle_trending(user_id, sess, wl, fav, content_type, env) ==
    IF env.trending.status_code = HTTP_OK /\ env.trending.results # <<>>
    THEN LET fresh == [items |-> Take(env.trending.results, SessionLimit),
                       content_type |-> content_type,
                       source |-> "trending",
                       current_index |-> 0,
                       last_refresh |-> IsoFormat(now)]
             d == display_random_content(user_id, fresh, wl, fav, 0, env)
         IN  [session |-> d.session, view |-> d.view,
              http |-> <<TrendingRequest(content_type)>> \o d.http,
              fetched |-> env.trending.results, answer |-> ""]
    ELSE [session |-> sess, view |-> view[user_id], http |-> <<TrendingRequest(content_type)>>,
          fetched |-> <<>>,
          answer |-> IF env.trending.status_code = HTTP_OK
                     THEN "No trending items found!" ELSE "Error fetching trending content"]

(***************************************************************************)
(* manage_watchlist, manage_favorites, execute_removal                     *)
(***************************************************************************)
DetailsRequest(content_type, item_id) ==
    [call |-> "details", url |-> <<content_type, item_id>>, params |-> <<>>]

manage_watchlist(user_id, sess, wl, fav, action, content_type, item_id, env) ==
    LET added == add_to_list(wl, user_id, content_type, item_id, env.details.title,
                             env.details.poster_path, IsoFormat(now))
        removed == remove_from_list(wl, user_id, content_type, item_id)
        store == CASE action = "add" /\ StatusOk(env.details) ->
                        [table |-> added.table, ret |-> added.ret,
                         answer |-> IF added.ret THEN "Added to watchlist!"
                                    ELSE "Already in watchlist"]
                   [] action = "add" /\ ~StatusOk(env.details) ->
                        [table |-> wl, ret |-> FALSE, answer |-> "Failed to add to watchlist"]
                   [] action = "remove" ->
                        [table |-> removed.table, ret |-> removed.ret,
                         answer |-> IF removed.ret THEN "Removed from watchlist!"
                                    ELSE "Item not in watchlist"]
                   [] OTHER -> [table |-> wl, ret |-> FALSE, answer |-> ""]
        d == display_random_content(user_id, sess, store.table, fav,
                                    Get(sess, "current_index", 0), env)
    IN  [session |-> d.session, view |-> d.view,
         http |-> (IF action = "add" THEN <<DetailsRequest(content_type, item_id)>> ELSE <<>>)
                      \o d.http,
         fetched |-> d.fetched, watchlists |-> store.table, favorites |-> fav,
         ret |-> store.ret, answer |-> store.answer]

manage_favorites(user_id, sess, wl, fav, action, content_type, item_id, env) ==
    LET added == add_to_list(fav, user_id, content_type, item_id, env.details.title,
                             env.details.poster_path, IsoFormat(now))
        removed == remove_from_list(fav, user_id, content_type, item_id)
        store == CASE action = "add" /\ StatusOk(env.details) ->
                        [table |-> added.table, ret |-> added.ret,
                         answer |-> IF added.ret THEN "Added to favorites!"
                                    ELSE "Already in favorites"]
                   [] action = "add" /\ ~StatusOk(env.details) ->
                        [table |-> fav, ret |-> FALSE, answer |-> "Failed to add to favorites"]
                   [] action = "remove" ->
                        [table |-> removed.table, ret |-> removed.ret,
                         answer |-> IF removed.ret THEN "Removed from favorites"
                                    ELSE "Item not in favorites"]
                   [] OTHER -> [table |-> fav, ret |-> FALSE, answer |-> ""]
        d == display_random_content(user_id, sess, wl, store.table,
                                    Get(sess, "current_index", 0), env)
    IN  [session |-> d.session, view |-> d.view,
         http |-> (IF action = "add" THEN <<DetailsRequest(content_type, item_id)>> ELSE <<>>)
                      \o d.http,
         fetched |-> d.fetched, watchlists |-> wl, favorites |-> store.table,
         ret |-> store.ret, answer |-> store.answer]

execute_removal(user_id, sess, wl, fav, list_type, content_type, item_id) ==
    LET removed == IF list_type = "watchlist"
                   THEN remove_from_list(wl, user_id, content_type, item_id)
                   ELSE remove_from_list(fav, user_id, content_type, item_id)
    IN  [watchlists |-> IF list_type = "watchlist" THEN removed.table ELSE wl,
         favorites |-> IF list_type = "watchlist" THEN fav ELSE removed.table,
         ret |-> removed.ret,
         answer |-> CASE list_type = "watchlist" /\ removed.ret -> "Removed from watchlist!"
                      [] list_type = "watchlist" /\ ~removed.ret -> "Item not found in watchlist"
                      [] list_type # "watchlist" /\ removed.ret -> "Removed from favorites!"
                      [] OTHER -> "Item not found in favorites",
         session |-> sess, http |-> <<>>, fetched |-> <<>>,
         view |-> [kind |-> "remove_menu"]]

(***************************************************************************)
(* button: the dispatcher.  The callback data is modelled by its fields,   *)
(* data.split(':'); a field is the decimal text of an integer, Str(n), or   *)
(* any other text, Word(w).  The handler a payload is routed to is named,  *)
(* not run: whether it raises, and whether each transport call raises, is  *)
(* drawn by the environment.                                               *)
(***************************************************************************)
Word(w) == <<"word", w>>

\* int(x) succeeds
IsInt(x) == x[1] = "str"

\* data.startswith(name + ':')
StartsWith(parts, name) == Len(parts) >= 2 /\ parts[1] = Word(name)

\* lines 322-323
ValidatedPrefixes ==
    {"random", "genre", "details", "add_watchlist", "remove_watchlist", "add_favorite",
     "remove_favorite"}

\* the branches that compare the whole data
ExactData ==
    {"main_menu", "browse_genres", "trending_menu", "notification_settings",
     "toggle_notifications", "change_frequency", "change_content_type", "remove_menu", "noop"}

\* the branches that read data.split(':')[1] as text
TextPrefixes == {"random", "genre_type", "set_frequency", "set_content_type", "remove_menu", "trending"}

\* the branches that read int(data.split(':')[1])
IntPrefixes == {"random_prev", "random_next", "random_back", "my_watchlist", "my_favorites"}

\* the branches that read parts[1] and parts[2]
PairPrefixes == {"add_watchlist", "remove_watchlist", "add_favorite", "remove_favorite"}

\* the branches that unpack _, list_type, content_type, item_id = data.split(':')
UnpackPrefixes == {"confirm_remove", "execute_remove"}

\* lines 322-328: the content type check
InvalidContentType(parts) ==
    /\ \E name \in ValidatedPrefixes : StartsWith(parts, name)
    /\ parts[2] \notin {Word("movie"), Word("tv")}

\* lines 330-421: the branch taken and the exception its parsing raises
Route(parts) ==
    CASE \E name \in ExactData : (parts = <<Word(name)>>) ->
            [handler |-> parts[1][2], error |-> "none"]
      [] \E name \in TextPrefixes : StartsWith(parts, name) ->
            [handler |-> parts[1][2], error |-> "none"]
      [] \E name \in IntPrefixes : StartsWith(parts, name) ->
            [handler |-> parts[1][2],
             error |-> IF IsInt(parts[2]) THEN "none" ELSE "ValueError"]
      [] StartsWith(parts, "genre") ->
            [handler |-> "genre",
             error |-> IF Len(parts) < 3 THEN "IndexError"
                       ELSE IF IsInt(parts[3]) THEN "none" ELSE "ValueError"]
      [] StartsWith(parts, "details") ->
            [handler |-> "details",
             error |-> IF Len(parts) < 3 THEN "IndexError"
                       ELSE IF Len(parts) > 4 /\ ~IsInt(parts[5]) THEN "ValueError"
                       ELSE "none"]
      [] \E name \in PairPrefixes : StartsWith(parts, name) ->
            [handler |-> parts[1][2],
             error |-> IF Len(parts) < 3 THEN "IndexError" ELSE "none"]
      [] \E name \in UnpackPrefixes : StartsWith(parts, name) ->
            [handler |-> parts[1][2],
             error |-> IF Len(parts) = 4 THEN "none" ELSE "ValueError"]
      [] OTHER -> [handler |-> "none", error |-> "none"]

\* lines 320-421: the try block.  error is what it raises, shown what it
\* showed before that.
TryBlock(parts, env) ==
    IF InvalidContentType(parts)
    THEN IF env.body_ok
         THEN [shown |-> "Invalid content type", handler |-> "none", error |-> "none"]
         ELSE [shown |-> "", handler |-> "none", error |-> "TelegramError"]
    ELSE LET route == Route(parts)
         IN  IF route.error # "none"
             THEN [shown |-> "", handler |-> "none", error |-> route.error]
             ELSE IF route.handler = "none"
             THEN [shown |-> "", handler |-> "none", error |-> "none"]
             ELSE IF env.body_ok
             THEN [shown |-> route.handler, handler |-> route.handler, error |-> "none"]
             ELSE [shown |-> "", handler |-> route.handler, error |-> "Exception"]

\* lines 422-424: the except clause
Except(try, env) ==
    IF try.error = "none"
    THEN [shown |-> try.shown, handler |-> try.handler, raised |-> "none"]
    ELSE IF env.edit_ok
    THEN [shown |-> "Something went wrong. Please try again.", handler |-> try.handler,
          raised |-> "none"]
    ELSE [shown |-> "", handler |-> try.handler, raised |-> "TelegramError"]

\* button: allowed is what check_rate_limit returned; answer_ok, body_ok and
\* edit_ok say whether query.answer (lines 313, 316), the calls of the try
\* block and query.edit_message_text (line 424) return or raise.  raised is
\* the exception that leaves the handler.
button(parts, env) ==
    IF ~env.answer_ok
    THEN [shown |-> "", handler |-> "none", raised |-> "TelegramError"]
    ELSE IF ~env.allowed
    THEN [shown |-> "Too many requests. Please wait a minute.", handler |-> "none",
          raised |-> "none"]
    ELSE Except(TryBlock(parts, env), env)

\* what the last step did: the handler, its arguments and what it returned
Log(op, user_id, content_type, genre_id, index, item_id, fetched, ret, answer) ==
    [op |-> op, user |-> user_id, content_type |-> content_type, genre_id |-> genre_id,
     index |-> index, item_id |-> item_id, fetched |-> fetched, ret |-> ret, answer |-> answer]

(***************************************************************************)
(* Initial state: no session, empty tables, nothing rendered.              *)
(***************************************************************************)
NoView == [kind |-> "none"]

\* the handlers of one user that may be in progress at the same time
Slots == {1, 2}

IdleTask == [pc |-> "idle", shown |-> NoView]

NoTasks == [k \in Slots |-> IdleTask]

\* the notification job has not run yet
NoJob == [status |-> "idle", selected |-> <<>>, pending |-> <<>>, log |-> <<>>]

Init ==
    /\ session = [u \in Users |-> <<>>]
    /\ watchlists = EmptyBag
    /\ favorites = EmptyBag
    /\ notifications = EmptyBag
    /\ job = NoJob
    /\ tasks = NoTasks
    /\ user_activity = <<>>
    /\ now = 0
    /\ http = <<>>
    /\ outcome = Log("init", "", "", NoGenre, 0, Str(0), <<>>, FALSE, "")
    /\ view = [u \in Users |-> NoView]

(***************************************************************************)
(* Inputs of the handlers.  A profile names the sets the inputs of a       *)
(* specification are drawn from; an env is one draw.                       *)
(***************************************************************************)
ErrorResponse == [status_code |-> HTTP_ERROR, results |-> <<>>]

DetailsResponses ==
    {[status_code |-> HTTP_OK, title |-> "title", poster_path |-> "/poster.jpg"],
     [status_code |-> HTTP_ERROR, title |-> "", poster_path |-> ""]}

BaseEnv ==
    [chosen_sort |-> "vote_average.desc", page |-> 1, strict |-> ErrorResponse,
     fallback |-> ErrorResponse, shuffle |-> "identity", trending |-> ErrorResponse,
     details |-> [status_code |-> HTTP_ERROR, title |-> "", poster_path |-> ""]]

\* The provider answers the fallback request only when it is issued, and
\* the shuffle of a list of at most one item has one outcome.
FallbackDraws(content_type, genre_id, strict, D) ==
    IF Len(get_quality_content(content_type, genre_id, BaseEnv.chosen_sort, BaseEnv.page,
                               strict, ErrorResponse).http) > 1
    THEN D.fallback ELSE {ErrorResponse}

ShuffleDraws(content_type, genre_id, strict, fallback, D) ==
    LET n == Len(get_quality_content(content_type, genre_id, BaseEnv.chosen_sort, BaseEnv.page,
                                     strict, fallback).results)
    IN  IF n <= 1 THEN {"identity"} ELSE IF n <= 3 THEN D.shuffles ELSE D.long_shuffles

\* the draws of one get_random_content call, D naming the provider's
\* possible answers and the shuffles
FetchEnvs(content_type, genre_id, D) ==
    UNION {UNION {{[BaseEnv EXCEPT !.strict = a, !.fallback = b, !.shuffle = k] :
                      k \in ShuffleDraws(content_type, genre_id, a, b, D)} :
                  b \in FallbackDraws(content_type, genre_id, a, D)} :
           a \in D.strict}

\* display_random_content draws only when it refreshes
DisplayEnvs(sess, P) ==
    IF NeedsRefresh(sess)
    THEN P.envs[<<Get(sess, "content_type", "movie"), Get(sess, "genre_id", NoGenre)>>]
    ELSE {BaseEnv}

\* The index a navigation button carries.  display_random_content renders
\* 'random_prev:{index-1}' and 'random_next:{index+1}', show_details renders
\* 'random_back:{current_index}'.  A press comes from the view rendered last
\* (offset from current_index) or from a button of an older message; the
\* older message is the one every session starts with, the view of index 0
\* ('random_prev:-1', 'random_next:1', 'random_back:0').
IndexDraws(sess, offset, older) == {Get(sess, "current_index", 0) + offset} \cup older

ItemIds == {Str(603)}

\* The catalog's answers to a browse request.  Only the movie top-rated
\* list and the tv trending list have a page longer than a session holds;
\* only a movie genre has an empty strict page.
BrowseDraws(content_type, genre_id) ==
    [strict |-> {ErrorResponse,
                 [status_code |-> HTTP_OK, results |-> Page(MaxBrowseLen, {2})]}
                    \cup (IF content_type = "movie" /\ genre_id = NoGenre
                          THEN {[status_code |-> HTTP_OK, results |-> Page(SessionLimit + 1, {})]}
                          ELSE {})
                    \cup (IF content_type = "movie" /\ genre_id # NoGenre
                          THEN {[status_code |-> HTTP_OK, results |-> Page(0, {})]}
                          ELSE {}),
     fallback |-> {[status_code |-> HTTP_OK, results |-> Page(0, {})],
                   [status_code |-> HTTP_OK, results |-> Page(MaxBrowseLen, {2})],
                   [status_code |-> HTTP_OK, results |-> Page(ExampleLen, {})]},
     shuffles |-> {"identity", "reverse"},
     long_shuffles |-> {"reverse"}]

BrowseProfile ==
    [content_types |-> ContentTypes,
     genres |-> {99},
     envs |-> [k \in ContentTypes \X {NoGenre, 99} |->
                  FetchEnvs(k[1], k[2], BrowseDraws(k[1], k[2]))],
     trending |-> [content_type \in ContentTypes |->
                      {ErrorResponse,
                       [status_code |-> HTTP_OK, results |-> Page(2, {2})]}
                          \cup (IF content_type = "tv"
                                THEN {[status_code |-> HTTP_OK,
                                       results |-> Page(SessionLimit + 1, {2})]}
                                ELSE {})],
     older_prev |-> {0 - 1},
     older_next |-> {1},
     older_back |-> {0},
     bookmark_types |-> {"movie"},
     item_ids |-> ItemIds,
     ticks |-> {SessionTTL, SessionTTL + 1}]

\* the catalog is down for page requests, so no session is created
StoreDraws ==
    [strict |-> {ErrorResponse}, fallback |-> {ErrorResponse},
     shuffles |-> {"identity"}, long_shuffles |-> {"identity"}]

StoreProfile ==
    [content_types |-> {"movie"},
     genres |-> {99},
     envs |-> [k \in ContentTypes \X {NoGenre, 99} |-> FetchEnvs(k[1], k[2], StoreDraws)],
     trending |-> [content_type \in ContentTypes |-> {ErrorResponse}],
     older_prev |-> {},
     older_next |-> {},
     older_back |-> {},
     bookmark_types |-> ContentTypes,
     item_ids |-> ItemIds,
     ticks |-> {}]

\* the catalog answers a movie request with the same two items every time
ItemDraws ==
    [strict |-> {[status_code |-> HTTP_OK, results |-> Page(2, {})]},
     fallback |-> {[status_code |-> HTTP_OK, results |-> Page(2, {})]},
     shuffles |-> {"identity"}, long_shuffles |-> {"identity"}]

\* the bookmark buttons of the two items, whichever of them is shown
ItemProfile ==
    [content_types |-> {"movie"},
     genres |-> {99},
     envs |-> [k \in ContentTypes \X {NoGenre, 99} |-> FetchEnvs(k[1], k[2], ItemDraws)],
     trending |-> [content_type \in ContentTypes |-> {ErrorResponse}],
     older_prev |-> {},
     older_next |-> {},
     older_back |-> {},
     bookmark_types |-> {"movie"},
     item_ids |-> {Str(1), Str(2)},
     ticks |-> {SessionTTL + 1}]

(***************************************************************************)
(* Actions: one per handler.                                               *)
(***************************************************************************)
\* what a session handler leaves behind: the user's session, the message it
\* rendered and the requests it issued
BrowseStep(op, u, content_type, genre_id, index, r) ==
    /\ session' = [session EXCEPT ![u] = r.session]
    /\ view' = [view EXCEPT ![u] = r.view]
    /\ http' = r.http
    /\ outcome' = Log(op, u, content_type, genre_id, index, Str(0), r.fetched, FALSE,
                      Get(r, "answer", ""))
    /\ UNCHANGED <<watchlists, favorites, notifications, job, now, user_activity, tasks>>

\* what a bookmark handler leaves behind: the tables as well; details is the
\* provider's answer to the details request of an add
StoreStep(op, u, content_type, item_id, details, r) ==
    /\ session' = [session EXCEPT ![u] = r.session]
    /\ view' = [view EXCEPT ![u] = r.view]
    /\ http' = r.http
    /\ watchlists' = r.watchlists
    /\ favorites' = r.favorites
    /\ outcome' = Update(Log(op, u, content_type, NoGenre, 0, item_id, r.fetched, r.ret,
                             r.answer),
                         "details" :> details)
    /\ UNCHANGED <<notifications, job, now, user_activity, tasks>>

\* button 'random:{type}', /random_movie, /random_tv
RandomPress(u, P) ==
    \E content_type \in P.content_types :
      \E env \in P.envs[<<content_type, NoGenre>>] :
        BrowseStep("random", u, content_type, NoGenre, 0,
                   get_random_content(u, session[u], watchlists, favorites, content_type,
                                      NoGenre, env))

\* button 'genre:{type}:{genreId}'
GenrePress(u, P) ==
    \E content_type \in P.content_types, genre_id \in P.genres :
      \E env \in P.envs[<<content_type, genre_id>>] :
        BrowseStep("genre", u, content_type, genre_id, 0,
                   get_random_content(u, session[u], watchlists, favorites, content_type,
                                      genre_id, env))

\* button 'trending:{type}'
TrendingPress(u, P) ==
    \E content_type \in P.content_types :
      \E t \in P.trending[content_type] :
        BrowseStep("trending", u, content_type, NoGenre, 0,
                   handle_trending(u, session[u], watchlists, favorites, content_type,
                                   [BaseEnv EXCEPT !.trending = t]))

\* the three navigation buttons all call display_random_content(index)
Navigate(op, u, indexes, P) ==
    \E index \in indexes, env \in DisplayEnvs(session[u], P) :
        BrowseStep(op, u, "", NoGenre, index,
                   display_random_content(u, session[u], watchlists, favorites, index, env))

\* button 'random_prev:{index}'
RandomPrev(u, P) ==
    Navigate("random_prev", u, IndexDraws(session[u], 0 - 1, P.older_prev), P)

\* button 'random_next:{index}'
RandomNext(u, P) ==
    Navigate("random_next", u, IndexDraws(session[u], 1, P.older_next), P)

\* button 'random_back:{index}'
RandomBack(u, P) ==
    Navigate("random_back", u, IndexDraws(session[u], 0, P.older_back), P)

\* buttons 'add_watchlist:{type}:{itemId}' and 'remove_watchlist:{type}:{itemId}'
ManageWatchlist(u, P) ==
    \E action \in {"add", "remove"}, content_type \in P.bookmark_types, item_id \in P.item_ids,
       details \in DetailsResponses, env \in DisplayEnvs(session[u], P) :
        /\ (action = "remove" => details = BaseEnv.details)
        /\ StoreStep(action \o "_watchlist", u, content_type, item_id, details,
                     manage_watchlist(u, session[u], watchlists, favorites, action,
                                      content_type, item_id, [env EXCEPT !.details = details]))

\* buttons 'add_favorite:{type}:{itemId}' and 'remove_favorite:{type}:{itemId}'
ManageFavorites(u, P) ==
    \E action \in {"add", "remove"}, content_type \in P.bookmark_types, item_id \in P.item_ids,
       details \in DetailsResponses, env \in DisplayEnvs(session[u], P) :
        /\ (action = "remove" => details = BaseEnv.details)
        /\ StoreStep(action \o "_favorite", u, content_type, item_id, details,
                     manage_favorites(u, session[u], watchlists, favorites, action,
                                      content_type, item_id, [env EXCEPT !.details = details]))

\* button 'execute_remove:{listType}:{type}:{itemId}'
ExecuteRemoval(u, P) ==
    \E list_type \in {"watchlist", "favorites"}, content_type \in P.bookmark_types,
       item_id \in P.item_ids :
        StoreStep("execute_remove_" \o list_type, u, content_type, item_id, BaseEnv.details,
                  execute_removal(u, session[u], watchlists, favorites, list_type,
                                  content_type, item_id))

\* time passes
Tick(P) ==
    \E d \in P.ticks :
        /\ now + d <= MaxClock
        /\ now' = now + d
        /\ http' = <<>>
        /\ outcome' = Log("tick", "", "", NoGenre, 0, Str(0), <<>>, FALSE, "")
        /\ UNCHANGED <<session, watchlists, favorites, notifications, job, view, user_activity, tasks>>

(***************************************************************************)
(* The browse specification: one user's session under every session        *)
(* handler, with time passing.                                             *)
(***************************************************************************)
BrowseUsers == {"u1"}

Next ==
    \/ \E u \in BrowseUsers : RandomPress(u, BrowseProfile)
    \/ \E u \in BrowseUsers : GenrePress(u, BrowseProfile)
    \/ \E u \in BrowseUsers : TrendingPress(u, BrowseProfile)
    \/ \E u \in BrowseUsers : RandomPrev(u, BrowseProfile)
    \/ \E u \in BrowseUsers : RandomNext(u, BrowseProfile)
    \/ \E u \in BrowseUsers : RandomBack(u, BrowseProfile)
    \/ Tick(BrowseProfile)

Spec == Init /\ [][Next]_vars

(***************************************************************************)
(* The store specification: both users' bookmarks under every handler,     *)
(* at one instant.                                                         *)
(***************************************************************************)
StoreNext ==
    \/ \E u \in Users : RandomPress(u, StoreProfile)
    \/ \E u \in Users : RandomNext(u, StoreProfile)
    \/ \E u \in Users : ManageWatchlist(u, StoreProfile)
    \/ \E u \in Users : ManageFavorites(u, StoreProfile)
    \/ \E u \in Users : ExecuteRemoval(u, StoreProfile)

StoreSpec == Init /\ [][StoreNext]_vars

(***************************************************************************)
(* The item specification: one user browses a list of two movies and       *)
(* bookmarks them, with time passing.                                      *)
(***************************************************************************)
ItemNext ==
    \/ \E u \in BrowseUsers : RandomPress(u, ItemProfile)
    \/ \E u \in BrowseUsers : RandomNext(u, ItemProfile)
    \/ \E u \in BrowseUsers : ManageWatchlist(u, ItemProfile)
    \/ \E u \in BrowseUsers : ManageFavorites(u, ItemProfile)
    \/ \E u \in BrowseUsers : ExecuteRemoval(u, ItemProfile)
    \/ Tick(ItemProfile)

ItemSpec == Init /\ [][ItemNext]_vars

(***************************************************************************)
(* The button specification: one press per behaviour, the payload and the  *)
(* environment drawn from bounded sets.                                    *)
(***************************************************************************)
\* the fields after the action name: none, one, two, three or four, with an
\* integer or another text where an integer is read
ButtonArgs ==
    {<<>>, <<Word("movie")>>, <<Word("book")>>, <<Str(1)>>, <<Word("")>>,
     <<Word("movie"), Str(603)>>, <<Word("tv"), Word("x")>>,
     <<Word("watchlist"), Word("movie"), Str(603)>>,
     <<Word("movie"), Str(603), Word("watchlist"), Str(1)>>,
     <<Word("movie"), Str(603), Word("watchlist"), Word("x")>>}

ButtonInit ==
    /\ session = [u \in Users |-> <<>>]
    /\ watchlists = EmptyBag
    /\ favorites = EmptyBag
    /\ notifications = EmptyBag
    /\ job = NoJob
    /\ tasks = NoTasks
    /\ user_activity = <<>>
    /\ now = 0
    /\ http = <<>>
    /\ outcome \in [op : {"pending"},
                    data : {<<Word(name)>> \o args :
                                name \in ExactData \cup TextPrefixes \cup IntPrefixes
                                             \cup PairPrefixes \cup UnpackPrefixes
                                             \cup {"genre", "details", "bogus"},
                                args \in ButtonArgs},
                    allowed : BOOLEAN, answer_ok : BOOLEAN, body_ok : BOOLEAN,
                    edit_ok : BOOLEAN]
    /\ view = [u \in Users |-> NoView]

\* what a press leaves behind
ButtonStep(r) ==
    /\ outcome' = [op |-> "button", data |-> outcome.data, allowed |-> outcome.allowed,
                   answer_ok |-> outcome.answer_ok, body_ok |-> outcome.body_ok,
                   edit_ok |-> outcome.edit_ok, shown |-> r.shown, handler |-> r.handler,
                   raised |-> r.raised]
    /\ UNCHANGED <<session, watchlists, favorites, notifications, job, now, http, view, user_activity, tasks>>

ButtonPress ==
    /\ outcome.op = "pending"
    /\ ButtonStep(button(outcome.data, outcome))

ButtonSpec == ButtonInit /\ [][ButtonPress]_vars

(***************************************************************************)
(* Selector specification: one call of get_quality_content per step, the   *)
(* inputs and the provider's answers drawn from bounded sets.              *)
(***************************************************************************)
SelectorInit ==
    /\ session = [u \in Users |-> <<>>]
    /\ watchlists = EmptyBag
    /\ favorites = EmptyBag
    /\ notifications = EmptyBag
    /\ job = NoJob
    /\ tasks = NoTasks
    /\ user_activity = <<>>
    /\ now = 0
    /\ http = <<>>
    /\ outcome \in [op : {"pending"}, content_type : ContentTypes,
                    genre_id : {NoGenre, 28} \cup DOMAIN GENRE_ADJUSTMENTS,
                    chosen_sort : sort_options,
                    \* random.randint(1, 10)
                    page : 1 .. 10,
                    strict : Responses(0 .. MaxResults),
                    fallback : Responses({0, 1, MaxResults})]
    /\ view = [u \in Users |-> NoView]

SelectorCall ==
    /\ outcome.op = "pending"
    /\ LET r == get_quality_content(outcome.content_type, outcome.genre_id, outcome.chosen_sort,
                                     outcome.page, outcome.strict, outcome.fallback)
       IN  /\ http' = r.http
           /\ outcome' = [op |-> "get_quality_content", content_type |-> outcome.content_type,
                          genre_id |-> outcome.genre_id, strict |-> outcome.strict,
                          fallback |-> outcome.fallback, results |-> r.results]
    /\ UNCHANGED <<session, watchlists, favorites, notifications, job, now, view, user_activity, tasks>>

\* what the caller of the selector leaves behind
CallerStep(u, r) ==
    /\ session' = [session EXCEPT ![u] = r.session]
    /\ view' = [view EXCEPT ![u] = r.view]
    /\ http' = r.http
    /\ outcome' = [outcome EXCEPT !.op = "get_random_content"]
    /\ UNCHANGED <<watchlists, favorites, notifications, job, now, user_activity, tasks>>

\* the same call seen from its caller: get_random_content for user u1 with
\* the draws and the answers of the call just made
SelectorCaller ==
    /\ outcome.op = "get_quality_content"
    /\ CallerStep("u1",
                  get_random_content("u1", session["u1"], watchlists, favorites,
                                     outcome.content_type, outcome.genre_id,
                                     [BaseEnv EXCEPT !.chosen_sort = http[1].params["sort_by"],
                                                     !.page = http[1].params["page"],
                                                     !.strict = outcome.strict,
                                                     !.fallback = outcome.fallback]))

SelectorNext == SelectorCall \/ SelectorCaller

SelectorSpec == SelectorInit /\ [][SelectorNext]_vars

\* C10: in one selector call the fallback request is issued exactly once
\* when the strict request succeeded with fewer results than the minimum
\* (3 for a rare genre, 8 otherwise) and not at all otherwise; the strict
\* request is always the first and at most two requests are issued.
FallbackCount == Cardinality({i \in DOMAIN http : http[i].call = "fallback"})

C10_FallbackOnce ==
    outcome.op = "get_quality_content" =>
        LET below == /\ outcome.strict.status_code = HTTP_OK
                     /\ Len(outcome.strict.results) <
                            (IF outcome.genre_id \in {99, 10770, 10763, 10764, 10767} THEN 3 ELSE 8)
        IN  /\ FallbackCount = (IF below THEN 1 ELSE 0)
            /\ Len(http) = 1 + FallbackCount
            /\ Len(http) <= 2
            /\ http[1].call = "strict"

\* a rare genre, one strict result, a fallback that is still below the minimum
C10_Witness ==
    /\ outcome.op = "get_quality_content"
    /\ outcome.genre_id = 99
    /\ outcome.strict.status_code = HTTP_OK
    /\ Len(outcome.strict.results) = 1
    /\ outcome.fallback.status_code = HTTP_OK
    /\ Len(outcome.fallback.results) = 1
    /\ Len(http) = 2

\* the provider's answer a selector call returns from: the fallback's when
\* the fallback request was issued, the strict one's otherwise
UsedAnswer == IF FallbackCount = 1 THEN outcome.fallback ELSE outcome.strict

AdultCount(results) == Cardinality({i \in DOMAIN results : results[i].adult})

\* C11: the list a selector call returns holds no adult-flagged item, whether
\* it comes from the strict answer or from the fallback answer, and it holds
\* every other item of that answer.
C11_NoAdultReturned ==
    outcome.op = "get_quality_content" =>
        /\ \A i \in DOMAIN outcome.results : outcome.results[i].adult = FALSE
        /\ UsedAnswer.status_code = 200 =>
                Len(outcome.results) = Len(UsedAnswer.results) - AdultCount(UsedAnswer.results)

\* the fallback answered with one adult item among several and the others came back
C11_Witness ==
    /\ outcome.op = "get_quality_content"
    /\ FallbackCount = 1
    /\ outcome.fallback.status_code = HTTP_OK
    /\ AdultCount(outcome.fallback.results) = 1
    /\ Len(outcome.results) = Len(outcome.fallback.results) - 1
    /\ Len(outcome.results) >= 1

\* C13 as stated: for a genre with a registered adjustment the strict
\* request's rating and vote-count thresholds are the genre's values.
C13_AdjustedThresholds ==
    (outcome.op = "get_quality_content" /\ outcome.genre_id \in {99, 16, 10770, 10763, 10764, 10767}) =>
        /\ http[1].params["vote_average.gte"] = GENRE_ADJUSTMENTS[outcome.genre_id]["min_rating"]
        /\ http[1].params["vote_count.gte"] = GENRE_ADJUSTMENTS[outcome.genre_id]["min_votes"]

\* C14: the fallback request carries vote_count.gte = max(30, v - 20) and
\* vote_average.gte = max(5.0, r - 0.5), v and r being the thresholds the
\* strict request carried, and is otherwise the strict request: same url,
\* same other parameters.  Ratings are in tenths.
C14_FallbackThresholds ==
    (outcome.op = "get_quality_content" /\ Len(http) = 2) =>
        LET strict == http[1].params
            relaxed == http[2].params
            v == strict["vote_count.gte"] - 20
            r == strict["vote_average.gte"] - 5
        IN  /\ relaxed["vote_count.gte"] = (IF v > 30 THEN v ELSE 30)
            /\ relaxed["vote_average.gte"] = (IF r > 50 THEN r ELSE 50)
            /\ DOMAIN relaxed = DOMAIN strict
            /\ \A k \in DOMAIN strict \ {"vote_count.gte", "vote_average.gte"} :
                    relaxed[k] = strict[k]
            /\ http[2].url = http[1].url

\* a movie request of an adjusted genre fell back from 100 votes and 6.0 to 80 and 5.5
C14_Witness ==
    /\ outcome.op = "get_quality_content"
    /\ outcome.content_type = "movie"
    /\ outcome.genre_id = 10763
    /\ Len(http) = 2
    /\ http[1].params["vote_count.gte"] = 100
    /\ http[2].params["vote_count.gte"] = 80
    /\ http[2].params["vote_average.gte"] = 55

\* C15: a strict request answered with a non-success status makes the
\* selector return the empty list after that one request; a fallback request
\* answered with a non-success status makes it return the empty list after
\* the two requests; and the caller, get_random_content, given the empty
\* list shows the no-results view and stores no session.
C15_FailureIsEmpty ==
    /\ outcome.op \in {"get_quality_content", "get_random_content"} =>
            /\ outcome.strict.status_code # 200 =>
                    (outcome.results = <<>> /\ Len(http) = 1 /\ http[1].call = "strict")
            /\ (FallbackCount = 1 /\ outcome.fallback.status_code # 200) =>
                    (outcome.results = <<>> /\ Len(http) = 2)
    /\ (outcome.op = "get_random_content" /\ outcome.results = <<>>) =>
            /\ view["u1"].kind = "no_results"
            /\ session["u1"] = <<>>

\* the strict request found too little, the fallback request failed, and the
\* caller showed the no-results view
C15_Witness ==
    /\ outcome.op = "get_random_content"
    /\ outcome.strict.status_code = HTTP_OK
    /\ Len(outcome.strict.results) = 2
    /\ outcome.fallback.status_code = HTTP_ERROR
    /\ Len(http) = 2
    /\ outcome.results = <<>>
    /\ view["u1"].kind = "no_results"

(***************************************************************************)
(* Properties of the browse session.                                       *)
(***************************************************************************)
Stored(u) == DOMAIN session[u] # {}

\* a stored, non-empty session no older than ten minutes
Active(u) ==
    /\ Stored(u)
    /\ session[u]["items"] # <<>>
    /\ now - session[u]["last_refresh"][2] <= 10

\* a stored, non-empty session older than ten minutes
Stale(u) ==
    /\ Stored(u)
    /\ session[u]["items"] # <<>>
    /\ now - session[u]["last_refresh"][2] > 10

NavOps == {"random_prev", "random_next", "random_back"}

Count(seq, x) == Cardinality({i \in DOMAIN seq : seq[i] = x})

\* items is a rearranged sub-list of fetched of length min(len(fetched), 20)
RearrangedSubList(items, fetched) ==
    /\ Len(items) = (IF Len(fetched) <= 20 THEN Len(fetched) ELSE 20)
    /\ \A i \in DOMAIN items : Count(items, items[i]) <= Count(fetched, items[i])

\* C1: every stored session has 0 <= current_index < len(items), whatever
\* index the navigation buttons carried.
C1_IndexInRange ==
    \A u \in Users :
        Stored(u) => /\ 0 <= session[u]["current_index"]
                     /\ session[u]["current_index"] < Len(session[u]["items"])

\* next was pressed on the last of twenty items: the button carried 20
C1_Witness ==
    /\ outcome.op = "random_next"
    /\ outcome.index = SessionLimit
    /\ http = <<>>
    /\ Len(session[outcome.user]["items"]) = SessionLimit
    /\ session[outcome.user]["current_index"] = 0

\* C2 as amended: on an active session of n items a press carrying index i
\* stores n - 1 when i < 0 and i mod n otherwise, and the view it renders
\* carries current_index - 1 on previous and current_index + 1 on next; so a
\* next press from the view rendered last stores (current_index + 1) mod n
\* and a previous press from it (current_index - 1) mod n, and three
\* previous presses from index 0 of five items end at index 2.
C2_PressFromLastView ==
    /\ [](NormIndex(NormIndex(NormIndex(0 - 1, 5) - 1, 5) - 1, 5) = 2)
    /\ [][\A u \in Users :
            (outcome'.user = u /\ outcome'.op \in {"random_next", "random_prev"} /\ Active(u)) =>
                LET n == Len(session[u]["items"])
                    cur == session[u]["current_index"]
                    i == outcome'.index
                    new == session'[u]["current_index"]
                IN  /\ new = (IF i < 0 THEN n - 1 ELSE i % n)
                    /\ (outcome'.op = "random_next" /\ i = cur + 1) => new = (cur + 1) % n
                    /\ (outcome'.op = "random_prev" /\ i = cur - 1) => new = (cur + n - 1) % n
                    /\ view'[u].kind = "item"
                    /\ view'[u].next = new + 1
                    /\ view'[u].prev = new - 1]_vars

\* previous pressed at index 0 of the five-item session
C2_Witness ==
    /\ outcome.op = "random_prev"
    /\ outcome.index = 0 - 1
    /\ http = <<>>
    /\ Len(session[outcome.user]["items"]) = ExampleLen
    /\ session[outcome.user]["current_index"] = ExampleLen - 1
    /\ view[outcome.user].prev = ExampleLen - 2

\* C2 as stated: every next press stores (current_index + 1) mod n and every
\* previous press (current_index - 1) mod n.
C2_Original ==
    [][\A u \in Users :
        (outcome'.user = u /\ Active(u)) =>
            LET n == Len(session[u]["items"])
                cur == session[u]["current_index"]
                new == session'[u]["current_index"]
            IN  /\ outcome'.op = "random_next" => new = (cur + 1) % n
                /\ outcome'.op = "random_prev" => new = (cur + n - 1) % n]_vars

\* the request a refresh of the session s must start with
RefetchesFor(s, requests) ==
    LET content_type == s["content_type"]
        genre_id == Get(s, "genre_id", NoGenre)
    IN  /\ Len(requests) >= 1
        /\ requests[1].call = "strict"
        /\ requests[1].url = (IF genre_id # NoGenre THEN <<"discover", content_type>>
                              ELSE <<content_type, "top_rated">>)
        /\ Get(requests[1].params, "with_genres", NoGenre) = genre_id

\* the session t replaces s with what was fetched at time t0
Replaces(t, s, fetched, t0) ==
    /\ t["last_refresh"] = <<"iso", t0>>
    /\ t["last_refresh"] # s["last_refresh"]
    /\ t["current_index"] = 0
    /\ RearrangedSubList(t["items"], fetched)
    /\ t["content_type"] = s["content_type"]
    /\ Get(t, "genre_id", NoGenre) = Get(s, "genre_id", NoGenre)

\* C3 as amended: a display request on a session older than ten minutes
\* refetches with the session's content type and genre; when the refetch
\* returns at least one item the stored session has a new last_refresh,
\* current_index 0 and the fetched items in place of the old list, and when
\* it returns none the stale session stays stored unchanged.
C3_StaleRefetch ==
    [][\A u \in Users :
        (outcome'.user = u /\ outcome'.op \in NavOps /\ Stale(u)) =>
            /\ RefetchesFor(session[u], http')
            /\ IF outcome'.fetched # <<>>
               THEN Replaces(session'[u], session[u], outcome'.fetched, now)
               ELSE session'[u] = session[u]]_vars

\* eleven minutes after a tv session of genre 99 was created, a press refetched it
C3_Witness ==
    /\ outcome.op \in NavOps
    /\ now = 11
    /\ Len(http) = 1
    /\ http[1].url = <<"discover", "tv">>
    /\ outcome.fetched # <<>>
    /\ session[outcome.user]["last_refresh"] = <<"iso", 11>>
    /\ session[outcome.user]["content_type"] = "tv"
    /\ session[outcome.user]["genre_id"] = 99

\* C3 as stated: after the display request on the stale session the stored
\* session has a new last_refresh, current_index 0 and a new item list.
C3_Original ==
    [][\A u \in Users :
        (outcome'.user = u /\ outcome'.op \in NavOps /\ Stale(u)) =>
            /\ RefetchesFor(session[u], http')
            /\ session'[u]["last_refresh"] # session[u]["last_refresh"]
            /\ session'[u]["current_index"] = 0
            /\ RearrangedSubList(session'[u]["items"], outcome'.fetched)]_vars

\* C4: a next/previous/back press on an active session issues no catalog
\* request and changes nothing of the session but current_index.
C4_NavigateNoRefetch ==
    [][\A u \in Users :
        (outcome'.user = u /\ outcome'.op \in NavOps /\ Active(u)) =>
            /\ http' = <<>>
            /\ DOMAIN session'[u] = DOMAIN session[u]
            /\ \A k \in DOMAIN session[u] \ {"current_index"} : session'[u][k] = session[u][k]]_vars

\* a press exactly ten minutes after the session was created moved the cursor
C4_Witness ==
    /\ outcome.op \in NavOps
    /\ now = 10
    /\ http = <<>>
    /\ session[outcome.user]["last_refresh"] = <<"iso", 0>>
    /\ session[outcome.user]["current_index"] = 1

\* C5: every stored session holds between 1 and 20 items, and a request
\* whose fetch yields no items leaves the stored session as it was.
C5_SessionSize ==
    /\ [](\A u \in Users :
            Stored(u) => (1 <= Len(session[u]["items"]) /\ Len(session[u]["items"]) <= 20))
    /\ [][\A u \in Users :
            (outcome'.user = u /\ http' # <<>> /\ outcome'.fetched = <<>>) =>
                session'[u] = session[u]]_vars

\* a page of 21 candidates was stored as a session of 20
C5_Witness ==
    /\ outcome.op = "random"
    /\ Len(outcome.fetched) = SessionLimit + 1
    /\ Len(session[outcome.user]["items"]) = SessionLimit

C12_NoAdultInSession ==
    \A u \in Users :
        Stored(u) => \A i \in DOMAIN session[u]["items"] : session[u]["items"][i].adult = FALSE

(***************************************************************************)
(* Properties of the watchlist and favorites tables.                       *)
(***************************************************************************)
Present(table, key) == \E row \in BagToSet(table) : <<row.user_id, row.content_type, row.item_id>> = key

OutcomeKey(o) == <<o.user, o.content_type, o.item_id>>

\* what an add that reached the table must have done to it
AddEffect(before, after, o) ==
    IF Present(before, OutcomeKey(o))
    THEN /\ o.ret = FALSE
         /\ after = before
    ELSE /\ o.ret = TRUE
         /\ BagCardinality(after) = BagCardinality(before) + 1
         /\ Present(after, OutcomeKey(o))
         /\ \A row \in BagToSet(before) : row \in BagToSet(after) /\ after[row] = before[row]

\* what a remove must have done to the table
RemoveEffect(before, after, o) ==
    IF Present(before, OutcomeKey(o))
    THEN /\ o.ret = TRUE
         /\ BagCardinality(after) = BagCardinality(before) - 1
         /\ ~Present(after, OutcomeKey(o))
         /\ \A row \in BagToSet(after) : row \in BagToSet(before) /\ after[row] = before[row]
    ELSE /\ o.ret = FALSE
         /\ after = before

C8_RemoveNotFound ==
    [][/\ outcome'.op \in {"remove_watchlist", "execute_remove_watchlist"} =>
            /\ RemoveEffect(watchlists, watchlists', outcome')
            /\ favorites' = favorites
       /\ outcome'.op \in {"remove_favorite", "execute_remove_favorites"} =>
            /\ RemoveEffect(favorites, favorites', outcome')
            /\ watchlists' = watchlists]_vars

\* the tv entry of an id was not found while the movie entry of that id stays
C8_Witness ==
    /\ outcome.op = "remove_watchlist"
    /\ outcome.content_type = "tv"
    /\ outcome.ret = FALSE
    /\ outcome.answer = "Item not in watchlist"
    /\ Present(watchlists, <<outcome.user, "movie", outcome.item_id>>)

StoreKeys == Users \X ContentTypes \X ItemIds

UniqueKeys(table) ==
    /\ \A row \in BagToSet(table) : table[row] = 1
    /\ \A r1, r2 \in BagToSet(table) :
            <<r1.user_id, r1.content_type, r1.item_id>> = <<r2.user_id, r2.content_type, r2.item_id>>
                => r1 = r2

\* an entry appears only by an add of its key, disappears only by a remove
\* of its key and is not rewritten in between
OnlyExplicit(before, after, o, add_ops, remove_ops) ==
    \A key \in StoreKeys :
        /\ (~Present(before, key) /\ Present(after, key)) =>
                (o.op \in add_ops /\ OutcomeKey(o) = key)
        /\ (Present(before, key) /\ ~Present(after, key)) =>
                (o.op \in remove_ops /\ OutcomeKey(o) = key)
        /\ (Present(before, key) /\ Present(after, key)) =>
                \A row \in BagToSet(before) :
                    <<row.user_id, row.content_type, row.item_id>> = key => row \in BagToSet(after)

\* C9: each table holds at most one entry per (user_id, content_type,
\* item_id), and an entry exists only from an add of its key to the next
\* remove of its key.
C9_UniqueKey ==
    /\ [](UniqueKeys(watchlists) /\ UniqueKeys(favorites))
    /\ [][/\ OnlyExplicit(watchlists, watchlists', outcome', {"add_watchlist"},
                          {"remove_watchlist", "execute_remove_watchlist"})
          /\ OnlyExplicit(favorites, favorites', outcome', {"add_favorite"},
                          {"remove_favorite", "execute_remove_favorites"})]_vars

\* both users hold the same item in their watchlists and a repeated add was refused
C9_Witness ==
    /\ outcome.op = "add_watchlist"
    /\ outcome.ret = FALSE
    /\ BagCardinality(watchlists) >= 3
    /\ \A u \in Users : Present(watchlists, <<u, "movie", outcome.item_id>>)

(***************************************************************************)
(* Notification preferences: the notifications table, one row per user     *)
(* (user_id is its primary key), and the handlers of the settings menu.    *)
(* A settings dict is a function from its keys; None is the empty one.     *)
(***************************************************************************)
DefaultSettings == [enabled |-> FALSE, frequency |-> "weekly", content_type |-> "both"]

\* the WHERE clause is missing
NotificationRows_m(table, user_id) == BagToSet(table)

\* SELECT * FROM notifications WHERE user_id = ?
NotificationRows(table, user_id) == {row \in BagToSet(table) : row.user_id = user_id}

get_notification_settings(table, user_id) ==
    IF NotificationRows(table, user_id) = {}
    THEN <<>>
    ELSE LET row == CHOOSE row \in NotificationRows(table, user_id) : TRUE
         IN  [user_id |-> row.user_id, enabled |-> (row.enabled # 0),
              frequency |-> row.frequency, content_type |-> row.content_type]

\* the stored record is not looked at
SettingsOrDefault_m(settings) == DefaultSettings

\* settings or {'enabled': False, 'frequency': 'weekly', 'content_type': 'both'}
SettingsOrDefault(settings) == IF DOMAIN settings = {} THEN DefaultSettings ELSE settings

\* kwargs holds the keyword arguments that are not None.  INSERT OR REPLACE
\* deletes the row that has the new row's primary key, then inserts.
update_notification_settings(table, user_id, kwargs) ==
    LET settings == Update(SettingsOrDefault(get_notification_settings(table, user_id)), kwargs)
        kept == BagToSet(table) \ NotificationRows(table, user_id)
    IN  [table |-> [row \in kept |-> table[row]]
                       (+) SetToBag({[user_id |-> user_id,
                                      enabled |-> (IF settings["enabled"] THEN 1 ELSE 0),
                                      frequency |-> settings["frequency"],
                                      content_type |-> settings["content_type"]]}),
         ret |-> settings]

\* str.capitalize() of the values the menus offer
Capitalize(s) ==
    Get(("daily" :> "Daily") @@ ("weekly" :> "Weekly") @@ ("monthly" :> "Monthly")
            @@ ("movies" :> "Movies") @@ ("tv" :> "Tv") @@ ("both" :> "Both"),
        s, <<"capitalize", s>>)

\* the settings menu: the labels of its three buttons
notification_settings(table, user_id) ==
    LET settings == SettingsOrDefault(get_notification_settings(table, user_id))
    IN  [kind |-> "notification_settings",
         status |-> IF settings["enabled"] THEN "Enabled" ELSE "Disabled",
         frequency |-> Capitalize(settings["frequency"]),
         content_type |-> Capitalize(settings["content_type"])]

NotifyResult(table, user_id, answer) ==
    [notifications |-> table, view |-> notification_settings(table, user_id), answer |-> answer]

toggle_notifications(table, user_id) ==
    LET settings == SettingsOrDefault(get_notification_settings(table, user_id))
        new_state == ~settings["enabled"]
    IN  NotifyResult(update_notification_settings(table, user_id, "enabled" :> new_state).table,
                     user_id,
                     "Notifications " \o (IF new_state THEN "enabled" ELSE "disabled"))

set_frequency(table, user_id, frequency) ==
    NotifyResult(update_notification_settings(table, user_id, "frequency" :> frequency).table,
                 user_id, "Frequency set to " \o frequency)

set_content_type(table, user_id, content_type) ==
    NotifyResult(update_notification_settings(table, user_id,
                                              "content_type" :> content_type).table,
                 user_id, "Content type set to " \o content_type)

NotifyStep(op, u, value, r) ==
    /\ notifications' = r.notifications
    /\ view' = [view EXCEPT ![u] = r.view]
    /\ http' = <<>>
    /\ outcome' = [op |-> op, user |-> u, value |-> value, answer |-> r.answer]
    /\ UNCHANGED <<session, watchlists, favorites, job, now, user_activity, tasks>>

\* button 'toggle_notifications'
ToggleNotifications(u) ==
    NotifyStep("toggle_notifications", u, "", toggle_notifications(notifications, u))

\* button 'set_frequency:{frequency}'
SetFrequency(u) ==
    \E frequency \in ({"daily", "weekly", "monthly"}) :
        NotifyStep("set_frequency", u, frequency, set_frequency(notifications, u, frequency))

\* button 'set_content_type:{type}'
SetContentType(u) ==
    \E content_type \in ({"movies", "tv", "both"}) :
        NotifyStep("set_content_type", u, content_type,
                   set_content_type(notifications, u, content_type))

NotifyNext ==
    \E u \in Users :
        \/ ToggleNotifications(u)
        \/ SetFrequency(u)
        \/ SetContentType(u)

NotifySpec == Init /\ [][NotifyNext]_vars

(***************************************************************************)
(* send_notifications, the weekly job.  One iteration of its loop runs     *)
(* from the read of the user's settings to the await of the send without a *)
(* suspension point, so it is one step; the handlers of the settings menu  *)
(* run between the iterations.  job.log keeps what each iteration did.     *)
(***************************************************************************)
\* the list random.choice draws the content type from
content_types(settings) ==
    IF settings["content_type"] = "movies" THEN <<"movie">>
    ELSE IF settings["content_type"] = "tv" THEN <<"tv">>
    ELSE <<"movie", "tv">>

\* results[:10]
TopCount == 10

\* an iteration that does not get to the selector
Skipped(user_id) ==
    [user |-> user_id, filter |-> "", calls |-> 0, content_type |-> "", http |-> <<>>,
     delivered |-> <<>>, error |-> "none"]

\* the iteration of one user.  env: the content type and the item drawn by
\* random.choice, whether requests.get raises, the provider's answers and
\* whether the send raises.
notify_user(table, user_id, env) ==
    LET settings == get_notification_settings(table, user_id)
        r == get_quality_content(env.content_type, NoGenre, env.chosen_sort, env.page,
                                 env.strict, env.fallback)
        queried == [Skipped(user_id) EXCEPT !.filter = settings["content_type"],
                                            !.calls = 1,
                                            !.content_type = env.content_type]
    IN  IF DOMAIN settings = {} \/ ~settings["enabled"]
        THEN Skipped(user_id)
        ELSE IF env.fetch_raises
        THEN [queried EXCEPT !.http = SubSeq(r.http, 1, 1), !.error = "fetch_raised"]
        ELSE IF r.results = <<>>
        THEN [queried EXCEPT !.http = r.http]
        ELSE IF env.send_ok
        THEN [queried EXCEPT !.http = r.http,
                             !.delivered = <<Take(r.results, TopCount)[env.pick]>>]
        ELSE [queried EXCEPT !.http = r.http, !.error = "send_failed"]

\* the loop's state after the iteration of the head of job.pending
AfterIteration(j, entry) ==
    [status |-> IF (entry.error = "fetch_raised") THEN "aborted"
                ELSE IF Len(j.pending) = 1 THEN "done" ELSE "running",
     selected |-> j.selected,
     pending |-> Tail(j.pending),
     log |-> Append(j.log, entry)]

\* The provider's answers to the job's request: down, too few candidates
\* with a fallback that helps, and a page longer than the ten the item is
\* picked from.
JobFetches ==
    {[fetch_raises |-> TRUE, strict |-> ErrorResponse, fallback |-> ErrorResponse],
     [fetch_raises |-> FALSE, strict |-> ErrorResponse, fallback |-> ErrorResponse],
     [fetch_raises |-> FALSE,
      strict |-> [status_code |-> HTTP_OK, results |-> Page(2, {2})],
      fallback |-> [status_code |-> HTTP_OK, results |-> Page(3, {2})]],
     [fetch_raises |-> FALSE,
      strict |-> [status_code |-> HTTP_OK, results |-> Page(TopCount + 1, {})],
      fallback |-> ErrorResponse]}

JobBaseEnv ==
    [content_type |-> "movie", chosen_sort |-> BaseEnv.chosen_sort, page |-> BaseEnv.page,
     fetch_raises |-> FALSE, strict |-> ErrorResponse, fallback |-> ErrorResponse,
     pick |-> 1, send_ok |-> TRUE]

\* random.choice picks any item of results[:10]; the first and the last are drawn
PickDraws(content_type, f) ==
    LET n == Len(Take(get_quality_content(content_type, NoGenre, BaseEnv.chosen_sort,
                                          BaseEnv.page, f.strict, f.fallback).results,
                      TopCount))
    IN  IF f.fetch_raises \/ n = 0 THEN {1} ELSE {1, n}

SendDraws(content_type, f) ==
    IF f.fetch_raises
        \/ get_quality_content(content_type, NoGenre, BaseEnv.chosen_sort, BaseEnv.page,
                               f.strict, f.fallback).results = <<>>
    THEN {TRUE} ELSE BOOLEAN

\* the draws of one iteration
JobEnvs(table, user_id) ==
    LET settings == get_notification_settings(table, user_id)
    IN  IF DOMAIN settings = {} \/ ~settings["enabled"]
        THEN {JobBaseEnv}
        ELSE UNION {UNION {{[JobBaseEnv EXCEPT !.content_type = content_types(settings)[t],
                                               !.fetch_raises = f.fetch_raises,
                                               !.strict = f.strict,
                                               !.fallback = f.fallback,
                                               !.pick = k,
                                               !.send_ok = ok] :
                               k \in PickDraws(content_types(settings)[t], f),
                               ok \in SendDraws(content_types(settings)[t], f)} :
                           f \in JobFetches} :
                    t \in DOMAIN content_types(settings)}

JobCommit(user_id, j, requests) ==
    /\ job' = j
    /\ http' = requests
    /\ outcome' = [op |-> "send_notifications", user |-> user_id, value |-> "", answer |-> ""]
    /\ UNCHANGED <<session, watchlists, favorites, notifications, now, view, user_activity, tasks>>

\* the job queue starts a run: the SELECT, and the end of the run when it
\* returns no row
JobStart ==
    /\ job.status # "running"
    \* SELECT user_id FROM notifications WHERE enabled = 1; the query has no
    \* ORDER BY: the rows come back in some order
    /\ \E order \in LET S == {row.user_id : row \in {r \in BagToSet(notifications) :
                                                         r.enabled = 1}}
                     IN  {o \in [1 .. Cardinality(S) -> S] :
                             \A i, j \in 1 .. Cardinality(S) : i # j => o[i] # o[j]} :
           JobCommit("", [status |-> IF order = <<>> THEN "done" ELSE "running",
                          selected |-> order, pending |-> order, log |-> <<>>],
                     <<>>)

IterationStep(entry) == JobCommit(entry.user, AfterIteration(job, entry), entry.http)

JobStep ==
    /\ job.status = "running"
    /\ \E env \in JobEnvs(notifications, Head(job.pending)) :
           IterationStep(notify_user(notifications, Head(job.pending), env))

FanoutNext ==
    \/ \E u \in Users : ToggleNotifications(u)
    \/ \E u \in Users : SetContentType(u)
    \/ JobStart
    \/ JobStep

FanoutSpec == Init /\ [][FanoutNext]_vars

(***************************************************************************)
(* RateLimiter and a whole button press: the limiter's check, then the     *)
(* dispatch of the payload to its handler.  user_activity maps a user to   *)
(* the list of the times of the presses recorded for that user; a missing  *)
(* key reads as the empty list (defaultdict).                              *)
(***************************************************************************)
\* Config.DISABLE_RATE_LIMITER, off unless the environment sets it
DISABLE_RATE_LIMITER == FALSE

max_requests == 15

per_seconds == 60

\* timedelta.total_seconds() of a difference of whole minutes
total_seconds(minutes) == minutes * 60

\* the old timestamps are never removed
InWindow_m(t, stamp) == TRUE

\* (now - t).total_seconds() < self.per_seconds
InWindow(t, stamp) == total_seconds(t - stamp) < per_seconds

\* the rejected press is recorded too
check_rate_limit_m(activity, user_id, t) ==
    LET kept == SelectSeq(Get(activity, user_id, <<>>), LAMBDA stamp : InWindow(t, stamp))
    IN  [user_activity |-> Update(activity, user_id :> Append(kept, t)),
         ret |-> Len(kept) < max_requests]

check_rate_limit(activity, user_id, t) ==
    LET kept == SelectSeq(Get(activity, user_id, <<>>), LAMBDA stamp : InWindow(t, stamp))
    IN  IF Len(kept) >= max_requests
        THEN [user_activity |-> Update(activity, user_id :> kept), ret |-> FALSE]
        ELSE [user_activity |-> Update(activity, user_id :> Append(kept, t)), ret |-> TRUE]

\* show_details for a button of the browse view (no source): the lookup, then
\* the details view with its back button, or the failure popup
show_details(sess, shown, content_type, item_id, env) ==
    [session |-> sess,
     view |-> IF StatusOk(env.details)
              THEN [kind |-> "details", content_type |-> content_type, item_id |-> item_id,
                    back |-> Get(sess, "current_index", 0)]
              ELSE shown,
     http |-> <<[call |-> "details", url |-> <<content_type, item_id>>,
                 params |-> ("append_to_response" :> "videos")]>>,
     answer |-> IF StatusOk(env.details) THEN ""
                ELSE "Failed to get details. Please try again."]

\* a press that leaves everything as it is
Untouched(sess, shown, wl, fav, prefs) ==
    [session |-> sess, view |-> shown, http |-> <<>>, watchlists |-> wl, favorites |-> fav,
     notifications |-> prefs, handler |-> "none", answer |-> ""]

\* every payload is let through
Rejected_m(parts) == FALSE

\* lines 322-328: the payload is turned away before the dispatch
Rejected(parts) == InvalidContentType(parts)

\* lines 320-424 for the payloads whose handlers are modelled: the content
\* type check, the parsing of the fields, the handler
Dispatch(user_id, sess, shown, wl, fav, prefs, parts, env) ==
    LET same == Untouched(sess, shown, wl, fav, prefs)
        handler == Route(parts).handler
    IN  IF Rejected(parts)
        THEN [same EXCEPT !.answer = "Invalid content type"]
        ELSE IF Route(parts).error # "none"
        THEN [same EXCEPT !.view = [kind |-> "error"]]
        ELSE CASE handler \in {"none", "noop"} -> same
               [] handler = "random" ->
                    Update([same EXCEPT !.handler = handler],
                           get_random_content(user_id, sess, wl, fav, parts[2][2], NoGenre, env))
               [] handler = "genre" ->
                    Update([same EXCEPT !.handler = handler],
                           get_random_content(user_id, sess, wl, fav, parts[2][2], parts[3][2],
                                              env))
               [] handler = "details" ->
                    Update([same EXCEPT !.handler = handler],
                           show_details(sess, shown, parts[2][2], parts[3], env))
               [] handler = "add_watchlist" ->
                    Update([same EXCEPT !.handler = handler],
                           manage_watchlist(user_id, sess, wl, fav, "add", parts[2][2], parts[3],
                                            env))
               [] handler = "remove_watchlist" ->
                    Update([same EXCEPT !.handler = handler],
                           manage_watchlist(user_id, sess, wl, fav, "remove", parts[2][2],
                                            parts[3], env))
               [] handler = "add_favorite" ->
                    Update([same EXCEPT !.handler = handler],
                           manage_favorites(user_id, sess, wl, fav, "add", parts[2][2], parts[3],
                                            env))
               [] handler = "remove_favorite" ->
                    Update([same EXCEPT !.handler = handler],
                           manage_favorites(user_id, sess, wl, fav, "remove", parts[2][2],
                                            parts[3], env))
               [] handler = "toggle_notifications" ->
                    Update([same EXCEPT !.handler = handler], toggle_notifications(prefs, user_id))

\* button, lines 304-424, with the transport calls returning
press(user_id, sess, shown, wl, fav, prefs, activity, t, parts, env) ==
    LET limit == check_rate_limit(activity, user_id, t)
    IN  IF DISABLE_RATE_LIMITER
        THEN Update(Dispatch(user_id, sess, shown, wl, fav, prefs, parts, env),
                    [user_activity |-> activity, accepted |-> TRUE])
        ELSE IF ~limit.ret
        THEN Update([Untouched(sess, shown, wl, fav, prefs)
                        EXCEPT !.answer = "Too many requests. Please wait a minute."],
                    [user_activity |-> limit.user_activity, accepted |-> FALSE])
        ELSE Update(Dispatch(user_id, sess, shown, wl, fav, prefs, parts, env),
                    [user_activity |-> limit.user_activity, accepted |-> TRUE])

PressStep(u, parts, r) ==
    /\ session' = [session EXCEPT ![u] = r.session]
    /\ view' = [view EXCEPT ![u] = r.view]
    /\ http' = r.http
    /\ watchlists' = r.watchlists
    /\ favorites' = r.favorites
    /\ notifications' = r.notifications
    /\ user_activity' = r.user_activity
    /\ outcome' = [op |-> "press", user |-> u, data |-> parts, accepted |-> r.accepted,
                   handler |-> r.handler, answer |-> r.answer]
    /\ UNCHANGED <<job, now, tasks>>

Press(u, data, envs) ==
    \E parts \in data, env \in envs :
        PressStep(u, parts,
                  press(u, session[u], view[u], watchlists, favorites, notifications,
                        user_activity, now, parts, env))

PressData(u) ==
    {<<Word("random"), Word("movie")>>,
     <<Word("add_watchlist"), Word("movie"), Str(1)>>,
     <<Word("toggle_notifications")>>}
        \cup (IF u = "u1"
              THEN {<<Word(name), Word("book"), Str(1)>> : name \in ValidatedPrefixes}
                       \cup {<<Word("random"), Word("book")>>, <<Word("random"), Word("")>>}
                       \cup {<<Word("details"), Word("movie"), Str(1)>>}
              ELSE {})

PressInit ==
    /\ session = [u \in Users |-> <<>>]
    /\ watchlists = EmptyBag
    /\ favorites = EmptyBag
    /\ notifications = EmptyBag
    /\ job = NoJob
    /\ tasks = NoTasks
    /\ user_activity = [u \in Users |-> ([i \in 1 .. max_requests - 3 |-> 0])]
    /\ now = 0
    /\ http = <<>>
    /\ outcome = Log("init", "", "", NoGenre, 0, Str(0), <<>>, FALSE, "")
    /\ view = [u \in Users |-> NoView]

\* the catalog is down, or up
PressNext ==
    \E u \in Users :
        Press(u, PressData(u),
              {BaseEnv,
               [BaseEnv EXCEPT !.strict = [status_code |-> HTTP_OK,
                                           results |-> Page(DefaultMinResults, {2})],
                               !.details = [status_code |-> HTTP_OK, title |-> "title",
                                            poster_path |-> "/poster.jpg"]]})

PressSpec == PressInit /\ [][PressNext]_vars

LimiterTick ==
    /\ total_seconds(now) < per_seconds
    /\ now' = now + 1
    /\ http' = <<>>
    /\ outcome' = Log("tick", "", "", NoGenre, 0, Str(0), <<>>, FALSE, "")
    /\ UNCHANGED <<session, watchlists, favorites, notifications, user_activity, job, tasks, view>>

LimiterNext ==
    \/ \E u \in Users :
           Press(u, IF u = "u1" THEN {<<Word("random"), Word("movie")>>} ELSE {<<Word("noop")>>},
                 {[BaseEnv EXCEPT !.strict = [status_code |-> HTTP_OK,
                                              results |-> Page(DefaultMinResults, {2})]]})
    \/ LimiterTick

LimiterSpec == Init /\ [][LimiterNext]_vars

(***************************************************************************)
(* _show_list: a page of the watchlist or of the favorites.                *)
(***************************************************************************)
items_per_page == 5

\* ORDER BY date_added DESC.  Rows of one user added at the same instant
\* have no order of their own; the specification below adds at most one row
\* per instant.
RECURSIVE NewestFirst(_)
NewestFirst(rows) ==
    IF rows = {} THEN <<>>
    ELSE LET newest == CHOOSE r \in rows :
                           \A q \in rows : FromIsoFormat(q.date_added) <= FromIsoFormat(r.date_added)
         IN  <<newest>> \o NewestFirst(rows \ {newest})

\* get_watchlist, get_favorites with LIMIT ? OFFSET ?; SQLite reads a
\* negative OFFSET as 0
get_list_page(table, user_id, offset, limit) ==
    LET all == NewestFirst(get_list(table, user_id))
        skip == IF offset < 0 THEN 0 ELSE offset
    IN  SubSeq(all, skip + 1, Min(skip + limit, Len(all)))

\* get_watchlist_count, get_favorites_count
get_list_count(table, user_id) == Cardinality(get_list(table, user_id))

\* the view of the list; entries are the keys the detail buttons carry
show_list(table, user_id, list_type, page) ==
    LET total_count == get_list_count(table, user_id)
        total_pages == (total_count + items_per_page - 1) \div items_per_page
        \* fetched for the requested page, before the page is clamped
        items == get_list_page(table, user_id, (page - 1) * items_per_page, items_per_page)
        clamped == Max(1, Min(page, total_pages))
    IN  IF items = <<>>
        THEN [kind |-> "empty_list", list_type |-> list_type,
              message |-> IF list_type = "watchlist"
                          THEN "Your watchlist is empty. Add items to watch later!"
                          ELSE "You haven't added any favorites yet."]
        ELSE [kind |-> "list", list_type |-> list_type, page |-> clamped,
              total_pages |-> total_pages,
              entries |-> [i \in DOMAIN items |-> <<items[i].content_type, items[i].item_id>>],
              has_prev |-> clamped > 1,
              has_next |-> clamped < total_pages]

\* the longest list explored: two pages
MaxListLen == 6

\* buttons 'my_watchlist:{page}' and 'my_favorites:{page}'
ShowList(u, pages) ==
    \E list_type \in {"watchlist", "favorites"}, page \in pages :
        /\ view' = [view EXCEPT ![u] = show_list(IF list_type = "watchlist" THEN watchlists
                                                 ELSE favorites, u, list_type, page)]
        /\ http' = <<>>
        /\ outcome' = [op |-> "show_list", user |-> u, list_type |-> list_type, page |-> page]
        /\ UNCHANGED <<session, watchlists, favorites, notifications, user_activity, job, tasks,
                       now>>

\* button 'add_watchlist:movie:{itemId}' for the item whose id is the
\* minute of the press, once per minute
ListAdd(u) ==
    /\ get_list_count(watchlists, u) < MaxListLen
    /\ \A row \in get_list(watchlists, u) : row.date_added # IsoFormat(now)
    /\ StoreStep("add_watchlist", u, "movie", Str(now), ([status_code |-> HTTP_OK, title |-> "title", poster_path |-> "/poster.jpg"]),
                 manage_watchlist(u, session[u], watchlists, favorites, "add", "movie", Str(now),
                                  [BaseEnv EXCEPT !.details = ([status_code |-> HTTP_OK, title |-> "title", poster_path |-> "/poster.jpg"])]))

\* button 'execute_remove:watchlist:movie:{itemId}' of an entry
ListRemove(u) ==
    \E row \in get_list(watchlists, u) :
        StoreStep("execute_remove_watchlist", u, row.content_type, row.item_id, BaseEnv.details,
                  execute_removal(u, session[u], watchlists, favorites, "watchlist",
                                  row.content_type, row.item_id))

ListNext ==
    \/ ShowList("u1", 0 .. (MaxListLen + items_per_page - 1) \div items_per_page + 1)
    \/ ListAdd("u1")
    \/ ListRemove("u1")
    \/ Tick([ticks |-> {1}])

ListSpec == Init /\ [][ListNext]_vars

(***************************************************************************)
(* Two handlers of one user in progress at once.  A coroutine runs without *)
(* interruption from one await of a transport call to the next, so each    *)
(* such stretch is one step: the stretch that fetches, stores the session  *)
(* and builds the view (ending at the await that renders it), for the      *)
(* bookmark handlers the stretch before the answer popup (the table        *)
(* update) and the one after it (lines 787-789), and the return of the     *)
(* rendering call.  The limiter's check and query.answer() come before     *)
(* any of this and touch no session; they are left out here.               *)
(***************************************************************************)
\* current_index is written only after the rendering call has returned
StoreAtRender_m(stored, rendered) ==
    IF rendered.kind = "item" /\ DOMAIN stored # {}
    THEN Update(stored, "current_index" :> rendered.index)
    ELSE stored

\* the writes after the rendering call has returned: none
StoreAtRender(stored, rendered) == stored

TaskCommit(u, k, step, task, sess, requests) ==
    /\ tasks' = [tasks EXCEPT ![k] = task]
    /\ session' = [session EXCEPT ![u] = sess]
    /\ http' = requests
    /\ outcome' = [op |-> "task", user |-> u, slot |-> k, step |-> step]
    /\ UNCHANGED <<favorites, notifications, user_activity, job, now>>

\* from the dispatch to the await that renders: r is the handler's result
BrowseTask(u, k, step, r) ==
    /\ TaskCommit(u, k, step, [pc |-> "rendering", shown |-> r.view], r.session, r.http)
    /\ UNCHANGED <<watchlists, view>>

\* buttons 'random:{type}' and 'genre:{type}:{genreId}'
TaskRandom(u, k, P) ==
    /\ tasks[k].pc = "idle"
    /\ \E content_type \in P.content_types, genre_id \in P.genres :
         \E env \in P.envs[<<content_type, genre_id>>] :
           BrowseTask(u, k, "random",
                      get_random_content(u, session[u], watchlists, favorites, content_type,
                                         genre_id, env))

\* buttons 'random_prev:{index}' and 'random_next:{index}'
TaskNavigate(u, k, P) ==
    /\ tasks[k].pc = "idle"
    /\ \E index \in P.indexes, env \in DisplayEnvs(session[u], P) :
           BrowseTask(u, k, "navigate",
                      display_random_content(u, session[u], watchlists, favorites, index, env))

\* button 'add_watchlist:{type}:{itemId}' up to the await of the answer popup
TaskBookmark(u, k, P) ==
    /\ tasks[k].pc = "idle"
    /\ \E content_type \in P.bookmark_types, item_id \in P.item_ids, details \in DetailsResponses :
           /\ watchlists' = manage_watchlist(u, session[u], watchlists, favorites, "add",
                                             content_type, item_id,
                                             [BaseEnv EXCEPT !.details = details]).watchlists
           /\ TaskCommit(u, k, "bookmark", [pc |-> "answering", shown |-> NoView],
                         session[u], <<DetailsRequest(content_type, item_id)>>)
           /\ UNCHANGED view

\* lines 787-789, after the popup
TaskRedisplay(u, k, P) ==
    /\ tasks[k].pc = "answering"
    /\ \E env \in DisplayEnvs(session[u], P) :
           BrowseTask(u, k, "redisplay",
                      display_random_content(u, session[u], watchlists, favorites,
                                             Get(session[u], "current_index", 0), env))

\* the rendering call returns and the handler ends
TaskFinish(u, k) ==
    /\ tasks[k].pc = "rendering"
    /\ view' = [view EXCEPT ![u] = tasks[k].shown]
    /\ TaskCommit(u, k, "finish", IdleTask, StoreAtRender(session[u], tasks[k].shown), <<>>)
    /\ UNCHANGED watchlists

\* A list of two and a list of five candidates, or none; the buttons of the
\* five-item view and of older messages.
TaskDraws ==
    [strict |-> {ErrorResponse, [status_code |-> HTTP_OK, results |-> Page(2, {})]},
     fallback |-> {[status_code |-> HTTP_OK, results |-> Page(3, {2})],
                   [status_code |-> HTTP_OK, results |-> Page(ExampleLen, {})]},
     shuffles |-> {"identity"},
     long_shuffles |-> {"identity"}]

TaskProfile ==
    [content_types |-> {"movie"},
     genres |-> {NoGenre},
     envs |-> [key \in {"movie"} \X {NoGenre} |-> FetchEnvs(key[1], key[2], TaskDraws)],
     indexes |-> {0 - 1, 1, ExampleLen - 1},
     bookmark_types |-> {"movie"},
     item_ids |-> {Str(1)},
     ticks |-> {SessionTTL + 1}]

TaskNext ==
    \/ \E k \in Slots : TaskRandom("u1", k, TaskProfile)
    \/ \E k \in Slots : TaskNavigate("u1", k, TaskProfile)
    \/ \E k \in Slots : TaskBookmark("u1", k, TaskProfile)
    \/ \E k \in Slots : TaskRedisplay("u1", k, TaskProfile)
    \/ \E k \in Slots : TaskFinish("u1", k)
    \/ Tick(TaskProfile)

TaskSpec == Init /\ [][TaskNext]_vars

(***************************************************************************)
(* Properties of what the handlers show.                                   *)
(***************************************************************************)
\* C16: every step of a user that renders a session item shows the
\* watchlist button in the remove state exactly when the item's key is in
\* the user's watchlist after the step, and the favorites button likewise;
\* so the item redisplayed by a successful add of its own key shows remove,
\* and the item redisplayed by a remove of its own key shows add.
C16_MembershipAtRender ==
    [][\A u \in Users :
        (outcome'.user = u /\ outcome'.op # "trending" /\ view'[u].kind = "item") =>
            LET key == <<u, view'[u].content_type, view'[u].item_id>>
                own == <<outcome'.user, outcome'.content_type, outcome'.item_id>> = key
            IN  /\ view'[u].in_watchlist = Present(watchlists', key)
                /\ view'[u].in_favorites = Present(favorites', key)
                /\ (outcome'.op = "add_watchlist" /\ outcome'.ret /\ own) => view'[u].in_watchlist
                /\ (outcome'.op = "remove_watchlist" /\ own) => ~view'[u].in_watchlist
                /\ (outcome'.op = "add_favorite" /\ outcome'.ret /\ own) => view'[u].in_favorites
                /\ (outcome'.op = "remove_favorite" /\ own) => ~view'[u].in_favorites]_vars

\* the item shown was added to the watchlist and came back in the remove
\* state, its favorites button still in the add state
C16_Witness ==
    /\ outcome.op = "add_watchlist"
    /\ outcome.ret
    /\ view[outcome.user].kind = "item"
    /\ view[outcome.user].item_id = outcome.item_id
    /\ view[outcome.user].in_watchlist
    /\ ~view[outcome.user].in_favorites
    /\ ~Present(favorites, <<outcome.user, "movie", outcome.item_id>>)

\* C17 as stated: whatever the payload, and whether or not the transport call
\* that shows the message fails, no exception leaves a button handler that
\* got past answering the query; a payload that is not recognized is ignored
\* and one that cannot be parsed ends with the generic message.
C17_NoExceptionEscapes ==
    (outcome.op = "button" /\ outcome.answer_ok) =>
        /\ outcome.raised = "none"
        /\ outcome.shown \in {"", "Something went wrong. Please try again.",
                              "Invalid content type",
                              "Too many requests. Please wait a minute.", outcome.handler}

\* the content type and the genre of the request made by the step: those of
\* the button for a random or genre press, those of the stale session for a
\* navigation press
RequestedType(u) ==
    IF outcome'.op \in NavOps THEN Get(session[u], "content_type", "movie")
    ELSE outcome'.content_type

RequestedGenre(u) ==
    IF outcome'.op \in NavOps THEN Get(session[u], "genre_id", NoGenre)
    ELSE outcome'.genre_id

EmptyFetch(u) ==
    /\ outcome'.user = u
    /\ outcome'.op \in {"random", "genre"} \cup NavOps
    /\ http' # <<>>
    /\ outcome'.fetched = <<>>

C19_FailedLookup ==
    [][/\ (outcome'.op = "add_watchlist" /\ outcome'.details.status_code # HTTP_OK) =>
            /\ http'[1] = DetailsRequest(outcome'.content_type, outcome'.item_id)
            /\ watchlists' = watchlists
            /\ favorites' = favorites
            /\ outcome'.answer = "Failed to add to watchlist"
       /\ (outcome'.op = "add_favorite" /\ outcome'.details.status_code # HTTP_OK) =>
            /\ http'[1] = DetailsRequest(outcome'.content_type, outcome'.item_id)
            /\ watchlists' = watchlists
            /\ favorites' = favorites
            /\ outcome'.answer = "Failed to add to favorites"]_vars

\* a failed add to a watchlist that holds another entry of the same user,
\* while the favorites hold one too
C19_Witness ==
    /\ outcome.op = "add_watchlist"
    /\ outcome.details.status_code = HTTP_ERROR
    /\ outcome.answer = "Failed to add to watchlist"
    /\ ~Present(watchlists, OutcomeKey(outcome))
    /\ \E row \in BagToSet(watchlists) : row.user_id = outcome.user
    /\ BagCardinality(favorites) >= 1

\* the user's stored preference row before the step, or the row of defaults
StoredOrDefaultRow(u) ==
    IF NotificationRows(notifications, u) = {}
    THEN [user_id |-> u, enabled |-> 0, frequency |-> "weekly", content_type |-> "both"]
    ELSE CHOOSE row \in NotificationRows(notifications, u) : TRUE

\* that row with the one field the step names set to the step's value
NamedFieldSet(u) ==
    CASE outcome'.op = "toggle_notifications" ->
            [StoredOrDefaultRow(u) EXCEPT !.enabled = 1 - @]
      [] outcome'.op = "set_frequency" ->
            [StoredOrDefaultRow(u) EXCEPT !.frequency = outcome'.value]
      [] outcome'.op = "set_content_type" ->
            [StoredOrDefaultRow(u) EXCEPT !.content_type = outcome'.value]

\* C20: the table holds at most one preference row per user, and a toggle,
\* set-frequency or set-content-type step of a user replaces that user's row
\* (the defaults disabled, weekly, both when there is none) by the same row
\* with only the named field changed, leaving every other row alone.
C20_Upsert ==
    /\ [](\A u \in Users :
            /\ Cardinality(NotificationRows(notifications, u)) <= 1
            /\ \A row \in NotificationRows(notifications, u) : CopiesIn(row, notifications) = 1)
    /\ [][\A u \in Users :
            (outcome'.user = u /\ outcome'.op \in {"toggle_notifications", "set_frequency",
                                                   "set_content_type"}) =>
                /\ NotificationRows(notifications', u) = {NamedFieldSet(u)}
                /\ \A v \in Users \ {u} :
                       NotificationRows(notifications', v) = NotificationRows(notifications, v)]_vars

\* a frequency change kept the enabled flag and the content type stored
\* before, both different from the defaults, while the other user has a row
C20_Witness ==
    /\ outcome.op = "set_frequency"
    /\ outcome.value = "daily"
    /\ NotificationRows(notifications, outcome.user) =
           {[user_id |-> outcome.user, enabled |-> 1, frequency |-> "daily",
             content_type |-> "movies"]}
    /\ \E v \in Users \ {outcome.user} : NotificationRows(notifications, v) # {}

\* C21: a failure in the iteration of one user (the send raising, the
\* catalog request raising or being answered with an error) does not stop
\* the run: the loop goes on to the users selected after that one and the
\* run ends having handled every selected user.
C21_FailureContained ==
    \A i \in DOMAIN job.log :
        (job.log[i].error # "none" \/ (job.log[i].calls = 1 /\ job.log[i].delivered = <<>>)) =>
            /\ job.status \in {"running", "done"}
            /\ job.status = "done" => Len(job.log) = Len(job.selected)

\* the rows of a table that belong to a user, with their multiplicity
RowsOf(table, v) == [row \in {r \in BagToSet(table) : r.user_id = v} |-> table[row]]

\* C22: a press of one user, accepted or rejected, succeeding or failing,
\* leaves every other user's session, watchlist and favorites rows,
\* notification preference and rate-limiter record as they were.
C22_OtherUsersUntouched ==
    [][\A u \in Users :
        (outcome'.op = "press" /\ outcome'.user = u) =>
            \A v \in Users \ {u} :
                /\ session'[v] = session[v]
                /\ RowsOf(watchlists', v) = RowsOf(watchlists, v)
                /\ RowsOf(favorites', v) = RowsOf(favorites, v)
                /\ RowsOf(notifications', v) = RowsOf(notifications, v)
                /\ Get(user_activity', v, <<>>) = Get(user_activity, v, <<>>)]_vars

\* a failed add of one user while the other user has a session, a
\* watchlist entry, a preference and recorded presses
C22_Witness ==
    /\ outcome.op = "press"
    /\ outcome.answer = "Failed to add to watchlist"
    /\ \E v \in Users \ {outcome.user} :
           /\ Stored(v)
           /\ RowsOf(watchlists, v) # EmptyBag
           /\ RowsOf(notifications, v) # EmptyBag
           /\ Len(Get(user_activity, v, <<>>)) = max_requests

\* the content types a preference's filter allows
AllowedBy(filter) ==
    CASE filter = "movies" -> {"movie"}
      [] filter = "tv" -> {"tv"}
      [] OTHER -> {"movie", "tv"}

\* what the iteration of a user did is in keeping with the user's preference
\* at that time: one selector call for an allowed content type when enabled
\* (filter is the stored filter then), none otherwise, one item at most
EntryInOrder(entry) ==
    /\ entry.calls = (IF entry.filter # "" THEN 1 ELSE 0)
    /\ entry.calls = 1 => entry.content_type \in AllowedBy(entry.filter)
    /\ entry.calls = 0 => entry.http = <<>>
    /\ Len(entry.delivered) <= 1
    /\ entry.calls = 0 => entry.delivered = <<>>

\* C23: when a run of the job has ended, every user the job selected as
\* enabled has had exactly one iteration, with exactly one selector call for
\* a content type the user's filter allows if the user was still enabled and
\* none if not, and at most one item delivered.
C23_OncePerEnabledUser ==
    job.status \in {"done", "aborted"} =>
        /\ Len(job.log) = Len(job.selected)
        /\ \A i \in DOMAIN job.log :
               /\ job.log[i].user = job.selected[i]
               /\ EntryInOrder(job.log[i])

\* C24: with two handlers of a user interleaved at their awaits, every
\* stored session has 0 <= current_index < len(items) for the item list that
\* is stored with it.
C24_IndexInRange ==
    \A u \in Users :
        Stored(u) =>
            /\ 0 <= session[u]["current_index"]
            /\ session[u]["current_index"] < Len(session[u]["items"])

\* while one handler waits for the rendering of item 5 of 5, the other has
\* replaced the session by one of two items and waits as well
C24_Witness ==
    \E k \in Slots : \E other \in Slots \ {k} :
        /\ tasks[k].pc = "rendering"
        /\ tasks[k].shown.kind = "item"
        /\ tasks[k].shown.index = ExampleLen - 1
        /\ tasks[other].pc = "rendering"
        /\ Stored("u1")
        /\ Len(session["u1"]["items"]) = 2

\* the payload starts with one of the seven prefixes and its content-type
\* field is neither 'movie' nor 'tv'
UnknownTypePayload(parts) ==
    /\ Len(parts) >= 2
    /\ parts[1] \in {Word("random"), Word("genre"), Word("details"), Word("add_watchlist"),
                     Word("remove_watchlist"), Word("add_favorite"), Word("remove_favorite")}
    /\ parts[2] # Word("movie")
    /\ parts[2] # Word("tv")

\* C25: a press whose payload has one of the prefixes random:, genre:,
\* details:, add_watchlist:, remove_watchlist:, add_favorite:,
\* remove_favorite: and a content type other than 'movie' and 'tv' is
\* answered 'Invalid content type' and reaches no handler: no catalog
\* request is issued and the sessions and both collections stay as they were.
C25_UnknownTypeRejected ==
    [][(outcome'.op = "press" /\ outcome'.accepted /\ UnknownTypePayload(outcome'.data)) =>
            /\ outcome'.answer = "Invalid content type"
            /\ outcome'.handler = "none"
            /\ http' = <<>>
            /\ session' = session
            /\ watchlists' = watchlists
            /\ favorites' = favorites]_vars

\* 'add_watchlist:book:1' pressed by a user who has a session and a
\* watchlist entry
C25_Witness ==
    /\ outcome.op = "press"
    /\ outcome.accepted
    /\ outcome.data = <<Word("add_watchlist"), Word("book"), Str(1)>>
    /\ outcome.answer = "Invalid content type"
    /\ Stored(outcome.user)
    /\ RowsOf(watchlists, outcome.user) # EmptyBag

\* the presses recorded for a user that are less than 60 seconds old at t
\* (the clock counts minutes)
Recent(activity, u, t) ==
    SelectSeq(Get(activity, u, <<>>), LAMBDA stamp : 60 * (t - stamp) < 60)

\* C26: no user's record ever holds more than 15 presses of the same
\* 60-second window; a press is accepted exactly when the user's own record
\* holds fewer than 15 presses of the last 60 seconds, and is then added to
\* that record; a rejected press leaves the record's recent presses, the
\* sessions and both collections as they were and reaches no handler; and
\* no press changes the record of another user.
C26_RateLimit ==
    /\ [](\A u \in Users : Len(Recent(user_activity, u, now)) <= 15)
    /\ [][\A u \in Users :
            (outcome'.op = "press" /\ outcome'.user = u) =>
                /\ outcome'.accepted = (Len(Recent(user_activity, u, now)) < 15)
                /\ outcome'.accepted =>
                       Recent(user_activity', u, now) = Append(Recent(user_activity, u, now), now)
                /\ ~outcome'.accepted =>
                       /\ Recent(user_activity', u, now) = Recent(user_activity, u, now)
                       /\ outcome'.handler = "none"
                       /\ http' = <<>>
                       /\ session' = session
                       /\ watchlists' = watchlists
                       /\ favorites' = favorites
                /\ \A v \in Users \ {u} :
                       Get(user_activity', v, <<>>) = Get(user_activity, v, <<>>)]_vars

\* a minute after the first presses the sixteenth press of the new minute is
\* rejected, while the other user still has allowance
C26_Witness ==
    /\ outcome.op = "press"
    /\ ~outcome.accepted
    /\ outcome.user = "u1"
    /\ now = 1
    /\ user_activity["u1"] = [i \in 1 .. 15 |-> 1]
    /\ Stored("u1")
    /\ Len(Recent(user_activity, "u2", now)) \in 1 .. 14


\* what the last list view was asked for
ShownTable == IF outcome.list_type = "watchlist" THEN watchlists ELSE favorites

ShownCount == Cardinality(get_list(ShownTable, outcome.user))

LastPage == (ShownCount + items_per_page - 1) \div items_per_page

ClampedPage == Max(1, Min(outcome.page, LastPage))

\* the entries of a page, newest first
PageEntries(page) ==
    LET all == NewestFirst(get_list(ShownTable, outcome.user))
        from == (page - 1) * items_per_page + 1
        to == Min(page * items_per_page, Len(all))
    IN  [i \in 1 .. (to - from + 1) |-> <<all[from + i - 1].content_type,
                                          all[from + i - 1].item_id>>]

ListViewOfPage(page) ==
    /\ view[outcome.user].kind = "list"
    /\ view[outcome.user].page = page
    /\ view[outcome.user].entries = PageEntries(page)
    /\ Len(view[outcome.user].entries) <= items_per_page

\* C27: the list view shows the empty-collection message only when the
\* collection is empty; for a non-empty collection and any requested page,
\* also one beyond the last page, it lists the entries of the page clamped
\* into [1, ceil(count / 5)], newest first, at most five of them.
C27_ListView ==
    outcome.op = "show_list" =>
        /\ view[outcome.user].kind = "empty_list" => ShownCount = 0
        /\ ShownCount > 0 => ListViewOfPage(ClampedPage)

====
